---- MODULE Spec2Model ----
(***************************************************************************)
(* Model of the PaperCrawler orchestrator (src/src/crawler/paper-crawler.ts *)
(* lines 17-344), the lowdb store it writes to (database/schema.ts) and    *)
(* the three entry points that start a crawl (CLI, POST /api/queries, the  *)
(* scheduled re-run job).                                                  *)
(*                                                                         *)
(* JavaScript is single-threaded: the code between two awaits is atomic.   *)
(* Every store function is `await getDatabase()` (an already resolved      *)
(* promise), a synchronous body that mutates db.data, and at most one      *)
(* `await database.write()`.  A store call is therefore one atomic change  *)
(* of db.data followed by an outcome of the write: it resolves, or it      *)
(* rejects and the caller throws WITH db.data already mutated.             *)
(*                                                                         *)
(* Objects are shared by reference: savePaper/saveSession push the very    *)
(* object they are given, and findPaperBy* hand out the stored object.     *)
(* Paper objects therefore live in a heap (paperObj) keyed by Paper.id,    *)
(* and every list of papers is a list of ids.                              *)
(***************************************************************************)
EXTENDS Integers, Sequences, FiniteSets, TLC

(***************************************************************************)
(* Strings.  A string is a sequence of one-character strings, so that      *)
(* toLowerCase, the regular expressions of normalizeTitle, includes and    *)
(* length are computed and not assumed.  undefined and '' are both <<>>    *)
(* (the code only ever tests them for truthiness).                         *)
(***************************************************************************)
UpperChars == <<"A","B","C","D","E","F","G","H","I","J","K","L","M",
                "N","O","P","Q","R","S","T","U","V","W","X","Y","Z">>

LowerChars == <<"a","b","c","d","e","f","g","h","i","j","k","l","m",
                "n","o","p","q","r","s","t","u","v","w","x","y","z">>

DigitChars == <<"0","1","2","3","4","5","6","7","8","9">>

Range(s) == { s[i] : i \in DOMAIN s }

LowerChar(ch) ==
  IF \E i \in DOMAIN UpperChars : UpperChars[i] = ch
  THEN LowerChars[CHOOSE i \in DOMAIN UpperChars : UpperChars[i] = ch]
  ELSE ch

toLowerCase(s) == [i \in DOMAIN s |-> LowerChar(s[i])]

\* \s (space and tab stand for all of it)
IsSpace(ch) == ch \in {" ", "\t"}

\* the characters kept by /[^a-z0-9\s]/g
IsKept(ch) == ch \in Range(LowerChars) \/ ch \in Range(DigitChars) \/ IsSpace(ch)

RECURSIVE StripOther(_)
StripOther(s) ==
  IF s = <<>> THEN <<>>
  ELSE IF IsKept(Head(s)) THEN <<Head(s)>> \o StripOther(Tail(s))
       ELSE StripOther(Tail(s))

\* .replace(/\s+/g, ' ')
RECURSIVE CollapseSpaces(_)
CollapseSpaces(s) ==
  IF s = <<>> THEN s
  ELSE IF IsSpace(s[1]) /\ Len(s) >= 2 /\ IsSpace(s[2]) THEN CollapseSpaces(Tail(s))
       ELSE <<IF IsSpace(s[1]) THEN " " ELSE s[1]>> \o CollapseSpaces(Tail(s))

RECURSIVE TrimLeft(_)
TrimLeft(s) ==
  IF s # <<>> /\ IsSpace(Head(s)) THEN TrimLeft(Tail(s)) ELSE s

RECURSIVE TrimRight(_)
TrimRight(s) ==
  IF s # <<>> /\ IsSpace(s[Len(s)]) THEN TrimRight(SubSeq(s, 1, Len(s) - 1)) ELSE s

trim(s) == TrimRight(TrimLeft(s))

\* normalizeTitle without .replace(/\s+/g, ' ')
normalizeTitleKeepingSpaces(title) == trim(StripOther(toLowerCase(title)))

normalizeTitle(title) == trim(CollapseSpaces(StripOther(toLowerCase(title))))

\* String.prototype.includes
includes(s, sub) ==
  \E i \in 0..(Len(s) - Len(sub)) : SubSeq(s, i + 1, i + Len(sub)) = sub

\* arr.slice(0, n)
slice(s, n) == SubSeq(s, 1, IF Len(s) < n THEN Len(s) ELSE n)

\* Array.from(new Set(arr)): first occurrences, in order
Uniq(s) ==
  LET firsts == { i \in DOMAIN s : \A j \in 1..(i - 1) : s[j] # s[i] }
  IN [k \in 1..Cardinality(firsts) |->
        s[CHOOSE i \in firsts : Cardinality({ j \in firsts : j < i }) = k - 1]]

RECURSIVE Flatten(_)
Flatten(ss) == IF ss = <<>> THEN <<>> ELSE Head(ss) \o Flatten(Tail(ss))


(***************************************************************************)
(* The bibliographic world the providers answer from.  Two works that cite *)
(* each other; every provider renders a work in its own way (DOI spelling, *)
(* title punctuation, which optional fields it fills), as the mapToPaper   *)
(* of each client does.                                                    *)
(***************************************************************************)
Works == {"X", "Y"}

\* the invocation order of Promise.allSettled([...]) in searchAllAPIs
AdapterOrder == <<"scopus", "semantic_scholar", "openalex", "crossref">>

Adapters == Range(AdapterOrder)

WorkChar(w) == IF w = "X" THEN "x" ELSE "y"

WorkCharUpper(w) == IF w = "X" THEN "X" ELSE "Y"

DoiLower(w) == <<"1", "0", ".", "1", "/", WorkChar(w)>>

DoiUpper(w) == <<"1", "0", ".", "1", "/", WorkCharUpper(w)>>

\* a Semantic Scholar paperId is 40 hexadecimal characters
S2PaperId(w) == [i \in 1..40 |-> IF i = 1 THEN (IF w = "X" THEN "a" ELSE "b") ELSE "0"]

OpenAlexWorkId(w) == <<"W", IF w = "X" THEN "1" ELSE "2">>

ScopusEid(w) == <<"8", IF w = "X" THEN "1" ELSE "2">>

TitlePunct(w) == <<WorkCharUpper(w), "b", ",", " ", "C", "!">>

TitlePlain(w) == <<WorkChar(w), "b", " ", "c">>

Cites(w) == IF w = "X" THEN <<"Y">> ELSE <<"X">>

NoString == <<>>

\* what the provider's record of work w carries for each Paper field
ProviderDoi(a, w) ==
  CASE a = "scopus"           -> IF w = "X" THEN DoiLower(w) ELSE NoString
    [] a = "semantic_scholar" -> IF w = "X" THEN DoiUpper(w) ELSE DoiLower(w)
    [] a = "openalex"         -> DoiLower(w)
    [] a = "crossref"         -> IF w = "X" THEN DoiLower(w) ELSE DoiUpper(w)

ProviderTitle(a, w) ==
  IF a = "openalex" THEN TitlePlain(w) ELSE TitlePunct(w)

ProviderAbstract(a, w) ==
  CASE a = "scopus"           -> NoString
    [] a = "semantic_scholar" -> <<"s", "2">>
    [] a = "openalex"         -> <<"o", "a">>
    [] a = "crossref"         -> NoString

ProviderCitations(a, w) ==
  CASE a = "scopus"           -> 5
    [] a = "semantic_scholar" -> 12
    [] a = "openalex"         -> 7
    [] a = "crossref"         -> 3

ProviderKeywords(a, w) ==
  CASE a = "scopus"           -> <<"k1">>
    [] a = "semantic_scholar" -> <<"k1", "k2">>
    [] a = "openalex"         -> <<"k2">>
    [] a = "crossref"         -> <<>>

\* references as the search endpoints deliver them: Scopus and the Semantic
\* Scholar search carry none, OpenAlex carries work ids, CrossRef carries DOIs
ProviderSearchRefs(a, w) ==
  CASE a = "scopus"           -> <<>>
    [] a = "semantic_scholar" -> <<>>
    [] a = "openalex"         -> [i \in DOMAIN Cites(w) |-> OpenAlexWorkId(Cites(w)[i])]
    [] a = "crossref"         -> [i \in DOMAIN Cites(w) |-> DoiLower(Cites(w)[i])]

\* the canonical Paper a client's mapToPaper builds; id stands for uuidv4()
\* influentialCitationCount of a record that has none (undefined)
NoCount == 0 - 1

mapToPaper(id, a, w, refs) ==
  [ id                |-> id,
    doi               |-> ProviderDoi(a, w),
    scopusId          |-> IF a = "scopus" THEN ScopusEid(w) ELSE NoString,
    semanticScholarId |-> IF a = "semantic_scholar" THEN S2PaperId(w) ELSE NoString,
    openAlexId        |-> IF a = "openalex" THEN OpenAlexWorkId(w) ELSE NoString,
    title             |-> ProviderTitle(a, w),
    abstract          |-> ProviderAbstract(a, w),
    keywords          |-> ProviderKeywords(a, w),
    citationCount     |-> ProviderCitations(a, w),
    referenceCount    |-> IF a = "scopus" THEN 0 ELSE Len(Cites(w)),
    influentialCitationCount |-> IF a = "semantic_scholar" THEN 2 ELSE NoCount,
    pdfUrl            |-> IF a \in {"scopus", "crossref"} THEN <<"p", WorkChar(w)>> ELSE NoString,
    openAccessUrl     |-> IF a \in {"semantic_scholar", "openalex"} THEN <<"u", WorkChar(w)>> ELSE NoString,
    references        |-> refs,
    lastUpdated       |-> "fetched",
    source            |-> a,
    work              |-> w ]

\* SemanticScholarClient.getPaperDetails asks for references.externalIds and
\* references.paperId: a reference is the cited work's DOI, else its paperId
S2DetailRefs(w) ==
  [i \in DOMAIN Cites(w) |->
     IF w = "X" THEN DoiLower(Cites(w)[i]) ELSE S2PaperId(Cites(w)[i])]

\* the work a reference identifier denotes at Semantic Scholar, if any
WorksOfRef(ref) ==
  { w \in Works : ref = S2PaperId(w) \/ toLowerCase(ref) = DoiLower(w) }


(***************************************************************************)
(* Dedup/Merge Engine (pure part).                                         *)
(***************************************************************************)
\* the key of deduplicatePapers (lines 162-168)
\* the key of lines 164-168 without the toLowerCase of line 165
IdentityKeyCaseSensitive(p) ==
  IF p.doi # NoString THEN <<"doi", p.doi>>
  ELSE <<"title", normalizeTitle(p.title)>>

IdentityKey(p) ==
  IF p.doi # NoString THEN <<"doi", toLowerCase(p.doi)>>
  ELSE <<"title", normalizeTitle(p.title)>>

\* mergePaperData appending newPaper's lists to existing's, without the Sets
mergePaperDataAppending(existing, newPaper) ==
  [ existing EXCEPT !.references = @ \o newPaper.references,
                    !.keywords = @ \o newPaper.keywords ]

\* mergePaperData without lines 210-220: existing's lists stay as they are
mergePaperDataKeepingLists(existing, newPaper) == existing

\* mergePaperData with lines 216-220 replacing the list: newPaper's keywords
mergePaperDataNewKeywords(existing, newPaper) ==
  [ existing EXCEPT !.keywords = newPaper.keywords ]

\* mergePaperData with line 206 always true: the incoming count is taken
mergePaperDataLastCount(existing, newPaper) ==
  [ existing EXCEPT !.citationCount = newPaper.citationCount ]

\* mergePaperData without the `!existing.x` guards: the incoming value wins
mergePaperDataLastWins(existing, newPaper) ==
  [ existing EXCEPT
      !.abstract = IF newPaper.abstract # NoString THEN newPaper.abstract ELSE @,
      !.doi = IF newPaper.doi # NoString THEN newPaper.doi ELSE @,
      !.pdfUrl = IF newPaper.pdfUrl # NoString THEN newPaper.pdfUrl ELSE @,
      !.references = Uniq(@ \o newPaper.references),
      !.keywords = Uniq(@ \o newPaper.keywords) ]

\* mergePaperData(existing, newPaper): the value of `existing` afterwards
mergePaperData(existing, newPaper) ==
  [ existing EXCEPT
      !.abstract = IF @ = NoString /\ newPaper.abstract # NoString
                   THEN newPaper.abstract ELSE @,
      !.doi = IF @ = NoString /\ newPaper.doi # NoString THEN newPaper.doi ELSE @,
      !.scopusId = IF @ = NoString /\ newPaper.scopusId # NoString
                   THEN newPaper.scopusId ELSE @,
      !.semanticScholarId = IF @ = NoString /\ newPaper.semanticScholarId # NoString
                            THEN newPaper.semanticScholarId ELSE @,
      !.openAlexId = IF @ = NoString /\ newPaper.openAlexId # NoString
                     THEN newPaper.openAlexId ELSE @,
      !.citationCount = IF newPaper.citationCount > @ THEN newPaper.citationCount ELSE @,
      !.references = Uniq(@ \o newPaper.references),
      !.keywords = Uniq(@ \o newPaper.keywords),
      !.pdfUrl = IF @ = NoString /\ newPaper.pdfUrl # NoString THEN newPaper.pdfUrl ELSE @,
      !.openAccessUrl = IF @ = NoString /\ newPaper.openAccessUrl # NoString
                        THEN newPaper.openAccessUrl ELSE @ ]

\* index of key k in the insertion-ordered Map `seen` (0 when absent)
\* seen.has(key) always false: every paper is set as a new entry
SeenIndexNone(seen, k) == 0

SeenIndex(seen, k) ==
  IF \E i \in DOMAIN seen : seen[i][1] = k
  THEN CHOOSE i \in DOMAIN seen : seen[i][1] = k
  ELSE 0

\* deduplicatePapers over a list of object ids: the loop of lines 161-176.
\* st = [seen |-> <<key, id>> pairs in insertion order, heap |-> objects]
RECURSIVE DedupLoop(_, _)
DedupLoop(ids, st) ==
  IF ids = <<>> THEN st
  ELSE LET paper == st.heap[Head(ids)]
           key   == IdentityKey(paper)
           at    == SeenIndex(st.seen, key)
       IN IF at = 0
          THEN DedupLoop(Tail(ids),
                 [st EXCEPT !.seen = Append(@, <<key, Head(ids)>>)])
          ELSE LET ex == st.seen[at][2]
               IN DedupLoop(Tail(ids),
                    [st EXCEPT !.heap[ex] = mergePaperData(@, paper)])

\* deduplicatePapers: [list |-> Array.from(seen.values()), heap |-> objects after merging]
deduplicatePapers(ids, heap) ==
  LET st == DedupLoop(ids, [seen |-> <<>>, heap |-> heap])
  IN [list |-> [i \in DOMAIN st.seen |-> st.seen[i][2]], heap |-> st.heap]


(***************************************************************************)
(* The store (database/schema.ts): synchronous bodies of its functions.    *)
(***************************************************************************)
NoId == <<>>

\* database.data.papers.find((p) => p.doi === doi)
\* findPaperByDOI looking at the first stored Paper only
findPaperByDOIFirstOnly(heap, stored, doi) ==
  IF stored # <<>> /\ heap[stored[1]].doi = doi THEN stored[1] ELSE NoId

\* findPaperByDOI finding nothing, whatever is stored
findPaperByDOINothing(heap, stored, doi) == NoId

findPaperByDOI(heap, stored, doi) ==
  IF \E i \in DOMAIN stored : heap[stored[i]].doi = doi
  THEN stored[CHOOSE i \in DOMAIN stored :
                /\ heap[stored[i]].doi = doi
                /\ \A j \in 1..(i - 1) : heap[stored[j]].doi # doi]
  ELSE NoId

\* database.data.papers.find((p) => p.title === title)
findPaperByTitle(heap, stored, title) ==
  IF \E i \in DOMAIN stored : heap[stored[i]].title = title
  THEN stored[CHOOSE i \in DOMAIN stored :
                /\ heap[stored[i]].title = title
                /\ \A j \in 1..(i - 1) : heap[stored[j]].title # title]
  ELSE NoId

\* savePaper without the findIndex of line 80: always push
savePaperPushing(stored, id) == Append(stored, id)

\* savePaper: replace the entry with the same id (the same object), else push
savePaper(stored, id) ==
  IF \E i \in DOMAIN stored : stored[i] = id THEN stored ELSE Append(stored, id)

\* does linkPaperToQuery find the pair (lines 169-171)
LinkExists(links, paperId, queryId) ==
  \E i \in DOMAIN links : links[i].paperId = paperId /\ links[i].queryId = queryId

\* linkPaperToQuery, unconditional push: the guard `if (!exists)` left out
linkPaperToQueryNoCheck(links, paperId, queryId, depth) ==
  Append(links, [paperId |-> paperId, queryId |-> queryId, depth |-> depth])

\* linkPaperToQuery as an upsert: an existing record takes the new depth
linkPaperToQueryUpsert(links, paperId, queryId, depth) ==
  IF LinkExists(links, paperId, queryId)
  THEN [i \in DOMAIN links |->
          IF links[i].paperId = paperId /\ links[i].queryId = queryId
          THEN [links[i] EXCEPT !.depth = depth] ELSE links[i]]
  ELSE Append(links, [paperId |-> paperId, queryId |-> queryId, depth |-> depth])

\* the depth stored for a linked pair
LinkDepth(links, paperId, queryId) ==
  links[CHOOSE i \in DOMAIN links :
          links[i].paperId = paperId /\ links[i].queryId = queryId].depth

\* linkPaperToQuery (lines 167-177): db.data.paperQueries afterwards
linkPaperToQuery(links, paperId, queryId, depth) ==
  IF LinkExists(links, paperId, queryId) THEN links
  ELSE Append(links, [paperId |-> paperId, queryId |-> queryId, depth |-> depth])

\* getPapersForQuery: the stored papers linked to the query, in store order
getPapersForQuery(stored, links, queryId) ==
  LET linked == { links[i].paperId : i \in { j \in DOMAIN links : links[j].queryId = queryId } }
  IN SelectSeq(stored, LAMBDA id : id \in linked)

(***************************************************************************)
(* Bounds of the model.                                                    *)
(***************************************************************************)
\* papers one adapter returns for a search (the code caps a source at
\* ceil(config.maxPapersPerSearch / 4))
MaxPerSource == 1

\* store writes that reject in one run of the model
MaxWriteFailures == 2

\* largest maxReferenceDepth a query is submitted with
MaxDepth == 2

Crawls == {"c1", "c2"}

(***************************************************************************)
(* State.                                                                  *)
(***************************************************************************)
VARIABLES
  pc,             \* where each crawl's caller / crawl() stands
  entry,          \* the entry point that started the crawl
  query,          \* the SearchQuery value handed to crawl()
  session,        \* the CrawlSession object of crawl() (line 37)
  outcome,        \* how crawl() settled: returned / raised with which error
  search,         \* the promises of Promise.allSettled (lines 101-124)
  loc,            \* the local variables of crawl() and of the methods it is in
  paperObj,       \* the Paper objects, by Paper.id
  dbPapers,       \* db.data.papers (ids of the stored objects, in order)
  dbSessions,     \* db.data.sessions (the session objects pushed, by crawl)
  dbQueries,      \* db.data.queries, by id
  paperQueries,   \* db.data.paperQueries
  dbAnalyses,     \* db.data.analyses (paperIds, in order)
  activeCrawlers, \* the activeCrawlers map of the HTTP server (its keys)
  crawlState, \* the module-level crawlState of the web crawl route
  writeFailures,  \* rejected database.write() calls so far
  indexed,        \* the world: the works each provider has a record of
  hist            \* observation only: phases finished / thrown, papers found per level

vars == <<pc, entry, query, session, outcome, search, loc, paperObj, dbPapers,
          dbSessions, dbQueries, paperQueries, dbAnalyses, activeCrawlers, crawlState,
          writeFailures, indexed, hist>>

storeVars == <<paperObj, dbPapers, dbSessions, dbQueries, paperQueries, dbAnalyses>>

\* crawlState as the module is loaded (route.ts lines 36-51)
NoCrawlState ==
  [isRunning |-> FALSE, progress |-> 0, totalPapers |-> 0, processedPapers |-> 0,
   error |-> FALSE]

QueryId(c) == <<"q", c>>

\* a query left `completed` by an earlier run in which no source answered
PriorQueryId == <<"q", "prior">>

NoQuery == [id |-> NoId, includeReferences |-> FALSE, maxReferenceDepth |-> 0]

NewSession ==
  [status |-> "running", papersFound |-> 0, papersAnalyzed |-> 0,
   errors |-> <<>>, completedAt |-> FALSE]

NoOutcome == [kind |-> "pending", error |-> "none"]

PendingSearch == [a \in Adapters |-> [status |-> "pending", papers |-> <<>>]]

InitLoc ==
  [ allPapers |-> <<>>, uniquePapers |-> <<>>, batch |-> <<>>, idx |-> 0,
    depth |-> 0, existingByDOI |-> NoId, target |-> NoId,
    refsToFetch |-> <<>>, fetchedPapers |-> <<>>, lookups |-> <<>>,
    responses |-> <<>>, delay |-> "none", screen |-> "none", screens |-> <<>>,
    limiter |-> <<>>, web |-> <<>>, academic |-> <<>>, retry |-> <<>>,
    toAnalyze |-> <<>>, analyses |-> <<>>, error |-> "none" ]

InitHist ==
  [done |-> {}, threw |-> {}, phase |-> "none", settleOrder |-> <<>>,
   allRejected |-> FALSE, levels |-> <<>>, dropped |-> FALSE, overtaken |-> FALSE]

\* --follow-refs / --depth of the CLI, includeReferences / maxReferenceDepth of
\* the HTTP body (the depth is not read when references are not followed)
QueryOptions ==
  { [includeReferences |-> TRUE, maxReferenceDepth |-> d] : d \in 0..MaxDepth }
    \cup { [includeReferences |-> FALSE, maxReferenceDepth |-> MaxDepth] }

StoreInit ==
  /\ paperObj = << >>
  /\ dbPapers = << >>
  /\ dbSessions = {}
  /\ dbQueries = (PriorQueryId :> [status |-> "completed", paperCount |-> 0,
                                   includeReferences |-> TRUE,
                                   maxReferenceDepth |-> MaxDepth])
  /\ paperQueries = << >>
  /\ dbAnalyses = << >>
  /\ activeCrawlers = {}
  /\ crawlState = NoCrawlState
  /\ writeFailures = 0

CrawlInit(active) ==
  /\ pc = [c \in Crawls |-> IF c \in active THEN "entry" ELSE "off"]
  /\ entry = [c \in Crawls |-> "none"]
  /\ query = [c \in Crawls |-> NoQuery]
  /\ session = [c \in Crawls |-> NewSession]
  /\ outcome = [c \in Crawls |-> NoOutcome]
  /\ search = [c \in Crawls |-> PendingSearch]
  /\ loc = [c \in Crawls |-> InitLoc]
  /\ hist = [c \in Crawls |-> InitHist]

\* every provider has a record of every work
FullWorld == [a \in Adapters |-> Works]

\* a world in which the providers' coverage differs: Scopus has Y only (and
\* without a DOI), Semantic Scholar has both works, OpenAlex has neither,
\* CrossRef has X only
PatchyWorld ==
  [a \in Adapters |->
     CASE a = "scopus"           -> {"Y"}
       [] a = "semantic_scholar" -> {"X", "Y"}
       [] a = "openalex"         -> {}
       [] a = "crossref"         -> {"X"}]

\* a world in which a seed comes from OpenAlex and CrossRef and its
\* references resolve at Semantic Scholar: Scopus has nothing, Semantic
\* Scholar has both works, OpenAlex and CrossRef have X only
CitingWorld ==
  [a \in Adapters |->
     CASE a = "scopus"           -> {}
       [] a = "semantic_scholar" -> {"X", "Y"}
       [] a = "openalex"         -> {"X"}
       [] a = "crossref"         -> {"X"}]

\* one crawl at a time
Init == StoreInit /\ CrawlInit({"c1"}) /\ indexed = PatchyWorld


(***************************************************************************)
(* database.write().  ok is the outcome of the write: it resolves, or it   *)
(* rejects (at most MaxWriteFailures times in a run).  The mutation of     *)
(* db.data that precedes the write stays either way.                       *)
(***************************************************************************)
WriteOutcome(ok) ==
  /\ ok \/ writeFailures < MaxWriteFailures
  /\ writeFailures' = IF ok THEN writeFailures ELSE writeFailures + 1

NoWrite == UNCHANGED writeFailures

\* an exception propagating inside the try block of crawl() (line 84)
LocThrow(l, site) == [l EXCEPT !.error = site]

HistThrow(h) == [h EXCEPT !.threw = @ \cup {h.phase}]

\* crawl() settles; POST /api/queries' .finally() drops the activeCrawlers entry
Settle(c, kind, err) ==
  /\ outcome' = [outcome EXCEPT ![c] = [kind |-> kind, error |-> err]]
  /\ activeCrawlers' = IF entry[c] = "http" THEN activeCrawlers \ {query[c].id}
                       ELSE activeCrawlers
  /\ UNCHANGED crawlState

StoredQuery(status, q) ==
  [status |-> status, paperCount |-> 0,
   includeReferences |-> q.includeReferences,
   maxReferenceDepth |-> q.maxReferenceDepth]

NewQuery(c, o) ==
  [id |-> QueryId(c), includeReferences |-> o.includeReferences,
   maxReferenceDepth |-> o.maxReferenceDepth]

\* updateQuery (lines 132-140): Object.assign on the stored query, if any
updateQuery(queries, id, status, paperCount) ==
  IF id \in DOMAIN queries
  THEN [queries EXCEPT ![id].status = status, ![id].paperCount = paperCount]
  ELSE queries

(***************************************************************************)
(* Entry points.                                                           *)
(***************************************************************************)
\* cli main(): saveQuery({ ...query, status: 'running' }), then crawler.crawl(query)
EnterCLI(c) ==
  /\ pc[c] = "entry"
  /\ \E o \in QueryOptions, ok \in BOOLEAN :
       /\ WriteOutcome(ok)
       /\ query' = [query EXCEPT ![c] = NewQuery(c, o)]
       /\ dbQueries' = (QueryId(c) :> StoredQuery("running", o)) @@ dbQueries
       /\ pc' = [pc EXCEPT ![c] = IF ok THEN "saveSession47" ELSE "notStarted"]
  /\ entry' = [entry EXCEPT ![c] = "cli"]
  /\ UNCHANGED <<session, outcome, search, loc, paperObj, dbPapers, dbSessions,
                 paperQueries, dbAnalyses, activeCrawlers, crawlState, hist, indexed>>

\* POST /api/queries, lines 58-77: saveQuery(query) with status 'pending',
\* then activeCrawlers.set(query.id, crawler)
HttpSaveQuery(c) ==
  /\ pc[c] = "entry"
  /\ \E o \in QueryOptions, ok \in BOOLEAN :
       /\ WriteOutcome(ok)
       /\ query' = [query EXCEPT ![c] = NewQuery(c, o)]
       /\ dbQueries' = (QueryId(c) :> StoredQuery("pending", o)) @@ dbQueries
       /\ pc' = [pc EXCEPT ![c] = IF ok THEN "httpUpdateQuery" ELSE "notStarted"]
       /\ activeCrawlers' = IF ok THEN activeCrawlers \cup {QueryId(c)} ELSE activeCrawlers
       /\ UNCHANGED crawlState
  /\ entry' = [entry EXCEPT ![c] = "http"]
  /\ UNCHANGED <<session, outcome, search, loc, paperObj, dbPapers, dbSessions,
                 paperQueries, dbAnalyses, hist, indexed>>

\* POST /api/queries, lines 79-92: updateQuery(query.id, { status: 'running' }),
\* then crawler.crawl(query) without awaiting it
HttpUpdateQuery(c) ==
  /\ pc[c] = "httpUpdateQuery"
  /\ \E ok \in BOOLEAN :
       /\ WriteOutcome(ok)
       /\ pc' = [pc EXCEPT ![c] = IF ok THEN "saveSession47" ELSE "notStarted"]
  /\ dbQueries' = [dbQueries EXCEPT ![query[c].id].status = "running"]
  /\ UNCHANGED <<entry, query, session, outcome, search, loc, paperObj, dbPapers,
                 dbSessions, paperQueries, dbAnalyses, activeCrawlers, crawlState, hist, indexed>>

\* scheduledCrawlJob, lines 261-286: one iteration over a completed query.
\* The new query object is handed to crawl() and never given to saveQuery.
EnterScheduled(c) ==
  /\ pc[c] = "entry"
  /\ \E q \in DOMAIN dbQueries :
       /\ dbQueries[q].status = "completed"
       /\ query' = [query EXCEPT ![c] = NewQuery(c, dbQueries[q])]
  /\ entry' = [entry EXCEPT ![c] = "scheduled"]
  /\ pc' = [pc EXCEPT ![c] = "saveSession47"]
  /\ NoWrite
  /\ UNCHANGED <<session, outcome, search, loc, storeVars, activeCrawlers, crawlState, hist, indexed>>

(***************************************************************************)
(* PaperCrawler.crawl, lines 36-47: the session is created and saved       *)
(* BEFORE the try block is entered.                                        *)
(***************************************************************************)
SaveSession47(c) ==
  /\ pc[c] = "saveSession47"
  /\ dbSessions' = dbSessions \cup {c}
  /\ \E ok \in BOOLEAN :
       /\ WriteOutcome(ok)
       /\ IF ok
          THEN /\ pc' = [pc EXCEPT ![c] = "search"]
               /\ hist' = [hist EXCEPT ![c].phase = "search"]
               /\ UNCHANGED <<outcome, activeCrawlers, crawlState>>
          ELSE /\ pc' = [pc EXCEPT ![c] = "done"]
               /\ Settle(c, "raised", "saveSession47")
               /\ UNCHANGED hist
  /\ UNCHANGED <<entry, query, session, search, loc, paperObj, dbPapers,
                 dbQueries, paperQueries, dbAnalyses, indexed>>


(***************************************************************************)
(* Phase 1, searchAllAPIs (lines 95-156).                                  *)
(***************************************************************************)
\* the lists of distinct works an adapter can answer with
RECURSIVE WorkLists(_)
WorkLists(n) ==
  IF n = 0 THEN {<<>>}
  ELSE LET shorter == WorkLists(n - 1)
       IN shorter \cup { Append(l, w) : l \in shorter, w \in Works } 

AdapterAnswers(a) ==
  { l \in WorkLists(MaxPerSource) :
      /\ Range(l) \subseteq indexed[a]
      /\ \A i, j \in DOMAIN l : i # j => l[i] # l[j] }

PaperIdOf(c, a, i) == <<c, a, i>>

\* one adapter's search promise settles, in any order relative to the others:
\* it rejects (AdapterError, timeout, second 429), or it fulfils with the
\* papers its mapToPaper built
AdapterSettle(c, a) ==
  /\ pc[c] = "search"
  /\ search[c][a].status = "pending"
  /\ \/ /\ search' = [search EXCEPT ![c][a] = [status |-> "rejected", papers |-> <<>>]]
        /\ UNCHANGED paperObj
     \/ \E ws \in AdapterAnswers(a) :
          LET ids == [i \in DOMAIN ws |-> PaperIdOf(c, a, i)]
              new == [id \in Range(ids) |->
                        LET w == ws[CHOOSE i \in DOMAIN ws : ids[i] = id]
                        IN mapToPaper(id, a, w, ProviderSearchRefs(a, w))]
          IN /\ search' = [search EXCEPT ![c][a] = [status |-> "fulfilled", papers |-> ids]]
             /\ paperObj' = new @@ paperObj
  /\ hist' = [hist EXCEPT ![c].settleOrder = Append(@, a)]
  /\ NoWrite
  /\ UNCHANGED <<pc, entry, query, session, outcome, loc, dbPapers, dbSessions,
                 dbQueries, paperQueries, dbAnalyses, activeCrawlers, crawlState, indexed>>

\* Promise.all in place of Promise.allSettled: one rejection rejects the search
FailFast(c) == \E a \in Adapters : search[c][a].status = "rejected"

\* does `await Promise.allSettled([...])` throw: never (lines 101-124)
SearchRejects(c) == FALSE

\* the CrossRef block (lines 148-153) pushing openAlexResult's papers again
CombinedCopyPaste(c) ==
  Flatten([i \in DOMAIN AdapterOrder |->
             LET a == IF AdapterOrder[i] = "crossref" THEN "openalex" ELSE AdapterOrder[i]
             IN IF search[c][AdapterOrder[i]].status = "fulfilled"
                THEN search[c][a].papers ELSE <<>>])

\* allPapers if results were pushed as each promise settles
CombinedByCompletion(c) ==
  Flatten([i \in DOMAIN hist[c].settleOrder |-> search[c][hist[c].settleOrder[i]].papers])

\* allPapers as lines 127-153 build it: the four results in invocation order,
\* a rejected one contributing nothing
CombinedPapers(c) ==
  Flatten([i \in DOMAIN AdapterOrder |->
             IF search[c][AdapterOrder[i]].status = "fulfilled"
             THEN search[c][AdapterOrder[i]].papers ELSE <<>>])

\* did every adapter's search reject (a record kept for the properties)
AllRejected(c) == \A a \in Adapters : search[c][a].status = "rejected"

\* Promise.allSettled resolves once all four have settled; lines 126-155
Collect(c) ==
  /\ pc[c] = "search"
  /\ \A a \in Adapters : search[c][a].status # "pending"
  /\ IF SearchRejects(c)
     THEN /\ pc' = [pc EXCEPT ![c] = "catch"]
          /\ loc' = [loc EXCEPT ![c] = LocThrow(@, "search")]
          /\ hist' = [hist EXCEPT ![c] = [HistThrow(@) EXCEPT !.allRejected = AllRejected(c)]]
     ELSE /\ pc' = [pc EXCEPT ![c] = "dedupe"]
          /\ loc' = [loc EXCEPT ![c].allPapers = CombinedPapers(c)]
          /\ hist' = [hist EXCEPT ![c].done = @ \cup {"search"},
                                  ![c].allRejected = AllRejected(c)]
  /\ NoWrite
  /\ UNCHANGED <<entry, query, session, outcome, search, storeVars, activeCrawlers, crawlState, indexed>>

(***************************************************************************)
(* Phase 2, line 56, and the head of the loop of phase 3.                  *)
(***************************************************************************)
\* where a savePaperWithRelation loop over `batch` goes when it is exhausted
AfterBatch(depth) == IF depth = 0 THEN "saveSession64" ELSE "saveSession280"

Dedupe(c) ==
  /\ pc[c] = "dedupe"
  /\ LET r == deduplicatePapers(loc[c].allPapers, paperObj)
     IN /\ paperObj' = r.heap
        /\ loc' = [loc EXCEPT ![c].uniquePapers = r.list, ![c].batch = r.list,
                              ![c].idx = 1, ![c].depth = 0]
        /\ pc' = [pc EXCEPT ![c] = IF r.list = <<>> THEN AfterBatch(0) ELSE "findByDOI"]
  /\ search' = [search EXCEPT ![c] = PendingSearch]
  /\ hist' = [hist EXCEPT ![c].phase = "persist"]
  /\ NoWrite
  /\ UNCHANGED <<entry, query, session, outcome, dbPapers, dbSessions,
                 dbQueries, paperQueries, dbAnalyses, activeCrawlers, crawlState, indexed>>

(***************************************************************************)
(* savePaperWithRelation(paper, queryId, depth), lines 310-325, for        *)
(* paper = batch[idx].                                                     *)
(***************************************************************************)
CurrentPaper(c) == loc[c].batch[loc[c].idx]

\* line 311
FindByDOI(c) ==
  /\ pc[c] = "findByDOI"
  /\ LET paper == paperObj[CurrentPaper(c)]
     IN loc' = [loc EXCEPT ![c].existingByDOI =
                  IF paper.doi # NoString
                  THEN findPaperByDOI(paperObj, dbPapers, paper.doi) ELSE NoId]
  /\ pc' = [pc EXCEPT ![c] = "findByTitle"]
  /\ hist' = [hist EXCEPT ![c].settleOrder = <<>>]
  /\ NoWrite
  /\ UNCHANGED <<entry, query, session, outcome, search, storeVars, activeCrawlers, crawlState, indexed>>

\* lines 312-318: the second lookup, and the merge INTO THE STORED OBJECT
FindByTitle(c) ==
  /\ pc[c] = "findByTitle"
  /\ LET paper    == paperObj[CurrentPaper(c)]
         byTitle  == findPaperByTitle(paperObj, dbPapers, paper.title)
         existing == IF loc[c].existingByDOI # NoId THEN loc[c].existingByDOI ELSE byTitle
     IN IF existing # NoId
        THEN /\ paperObj' = [paperObj EXCEPT ![existing] =
                               [mergePaperData(@, paper) EXCEPT !.lastUpdated = "reconciled"]]
             /\ loc' = [loc EXCEPT ![c].target = existing]
        ELSE /\ UNCHANGED paperObj
             /\ loc' = [loc EXCEPT ![c].target = CurrentPaper(c)]
  /\ pc' = [pc EXCEPT ![c] = "savePaper"]
  /\ NoWrite
  /\ UNCHANGED <<entry, query, session, outcome, search, dbPapers, dbSessions,
                 dbQueries, paperQueries, dbAnalyses, activeCrawlers, crawlState, hist, indexed>>

\* lines 319 / 322: savePaper(existing) or savePaper(paper)
SavePaper(c) ==
  /\ pc[c] = "savePaper"
  /\ dbPapers' = savePaper(dbPapers, loc[c].target)
  /\ \E ok \in BOOLEAN :
       /\ WriteOutcome(ok)
       /\ pc' = [pc EXCEPT ![c] = IF ok THEN "linkPaper" ELSE "catch"]
       /\ loc' = IF ok THEN loc ELSE [loc EXCEPT ![c] = LocThrow(@, "savePaper")]
       /\ hist' = [d \in Crawls |->
                     IF d = c THEN (IF ok THEN hist[d] ELSE HistThrow(hist[d]))
                     ELSE IF dbPapers' # dbPapers /\ pc[d] \in {"findByTitle", "savePaper"}
                          THEN [hist[d] EXCEPT !.overtaken = TRUE]
                          ELSE hist[d]]
  /\ UNCHANGED <<entry, query, session, outcome, search, paperObj, dbSessions,
                 dbQueries, paperQueries, dbAnalyses, activeCrawlers, crawlState, indexed>>

\* lines 320 / 323: linkPaperToQuery writes only when it pushed a link
LinkPaper(c) ==
  /\ pc[c] = "linkPaper"
  /\ paperQueries' = linkPaperToQuery(paperQueries, loc[c].target, query[c].id, loc[c].depth)
  /\ \E ok \in BOOLEAN :
       /\ IF LinkExists(paperQueries, loc[c].target, query[c].id)
          THEN ok /\ NoWrite
          ELSE WriteOutcome(ok)
       /\ IF ok
          THEN /\ loc' = [loc EXCEPT ![c].idx = @ + 1, ![c].existingByDOI = NoId,
                                     ![c].target = NoId]
               /\ pc' = [pc EXCEPT ![c] =
                           IF loc[c].idx = Len(loc[c].batch)
                           THEN AfterBatch(loc[c].depth) ELSE "findByDOI"]
               /\ UNCHANGED hist
          ELSE /\ loc' = [loc EXCEPT ![c] = LocThrow(@, "linkPaperToQuery")]
               /\ pc' = [pc EXCEPT ![c] = "catch"]
               /\ hist' = [hist EXCEPT ![c] = HistThrow(@)]
  /\ UNCHANGED <<entry, query, session, outcome, search, paperObj, dbPapers,
                 dbSessions, dbQueries, dbAnalyses, activeCrawlers, crawlState, indexed>>


(***************************************************************************)
(* Lines 63-69: the end of phase 3 and the gate of phase 4.                *)
(***************************************************************************)
\* phase 5 entered straight after the session save, phases 4 and 5 left out
AfterSession64Early(c) == "complete"

\* the gate of line 67 left out: followReferences is always called
AfterSession64Always(c) == "followReferences"

\* lines 66-73: where crawl() continues after `await saveSession(session)` of line 64
AfterSession64(c) ==
  IF query[c].includeReferences /\ query[c].maxReferenceDepth > 0
  THEN "followReferences" ELSE "getPapersForQuery"

SaveSession64(c) ==
  /\ pc[c] = "saveSession64"
  /\ session' = [session EXCEPT ![c].papersFound = Len(loc[c].uniquePapers)]
  /\ dbSessions' = dbSessions \cup {c}
  /\ \E ok \in BOOLEAN :
       /\ WriteOutcome(ok)
       /\ IF ok
          THEN /\ pc' = [pc EXCEPT ![c] = AfterSession64(c)]
               /\ loc' = [loc EXCEPT ![c].batch = loc[c].uniquePapers, ![c].depth = 1]
               /\ hist' = [hist EXCEPT ![c].done = @ \cup {"persist"},
                                       ![c].settleOrder = <<>>,
                                       ![c].phase = IF AfterSession64(c) = "followReferences"
                                                    THEN "refs" ELSE "analysis"]
          ELSE /\ pc' = [pc EXCEPT ![c] = "catch"]
               /\ loc' = [loc EXCEPT ![c] = LocThrow(@, "saveSession64")]
               /\ hist' = [hist EXCEPT ![c] = [HistThrow(@) EXCEPT !.settleOrder = <<>>]]
  /\ UNCHANGED <<entry, query, outcome, search, paperObj, dbPapers, dbQueries,
                 paperQueries, dbAnalyses, activeCrawlers, crawlState, indexed>>

(***************************************************************************)
(* Phase 4, followReferences(papers, query, session, currentDepth), lines  *)
(* 230-286.  papers = loc.batch, currentDepth = loc.depth.                 *)
(***************************************************************************)
RefsPerPaper == 10

RefsPerLevel == 50

S2IdLength == 40

\* lines 240-249 with every reference of a paper taken, not its first ten
RefsToFetchAllOfEach(heap, papers) ==
  slice(Uniq(Flatten([i \in DOMAIN papers |-> heap[papers[i]].references])),
        RefsPerLevel)

\* lines 240-249: the candidate identifiers of a level
RefsToFetch(heap, papers) ==
  slice(Uniq(Flatten([i \in DOMAIN papers |->
                        slice(heap[papers[i]].references, RefsPerPaper)])),
        RefsPerLevel)

\* lines 236-250
FollowReferences(c) ==
  /\ pc[c] = "followReferences"
  /\ IF loc[c].depth > query[c].maxReferenceDepth
     THEN /\ pc' = [pc EXCEPT ![c] = "getPapersForQuery"]
          /\ UNCHANGED loc
          /\ hist' = [hist EXCEPT ![c].done = @ \cup {"refs"}, ![c].phase = "analysis"]
     ELSE /\ pc' = [pc EXCEPT ![c] = "fetchRef"]
          /\ loc' = [loc EXCEPT ![c].refsToFetch = RefsToFetch(paperObj, loc[c].batch),
                                ![c].fetchedPapers = <<>>, ![c].lookups = <<>>]
          /\ UNCHANGED hist
  /\ NoWrite
  /\ UNCHANGED <<entry, query, session, outcome, search, storeVars, activeCrawlers, crawlState, indexed>>

IsDoiLike(ref) == includes(ref, <<"/">>) \/ includes(ref, <<"1", "0", ".">>)

\* what getPaperDetails can return for an identifier: null (not found, or the
\* request failed and was caught at lines 161-164), or the work's record
S2Answers(ref) == {"null"} \cup (WorksOfRef(ref) \cap indexed["semantic_scholar"])

RefPaperId(c, depth, k) == <<c, "ref", depth, k>>

\* lines 252-267 for one candidate (the head of refsToFetch): byDoi is the
\* answer of searchByDOI, byId the answer of getPaperDetails
FetchedWork(ref, byDoi, byId) ==
  IF IsDoiLike(ref) /\ byDoi # "null" THEN byDoi
  ELSE IF Len(ref) = S2IdLength THEN byId
  ELSE "null"

\* the lookups lines 253-266 make for one candidate, in order: searchByDOI
\* when it is DOI-like; getPaperDetails when it is 40 characters long, unless
\* the DOI lookup returned a paper (`continue`, line 257)
Lookups(ref, byDoi) ==
  (IF IsDoiLike(ref) THEN <<"doi">> ELSE <<>>)
    \o (IF ~ (IsDoiLike(ref) /\ byDoi # "null") /\ Len(ref) = S2IdLength
        THEN <<"id">> ELSE <<>>)

\* a lookup that failed or found nothing, seen from followReferences, if
\* getPaperDetails let the failure through instead of returning null
FetchOutcomeRethrown(w) == IF w = "null" THEN "thrown" ELSE "pushed"

\* a lookup seen from followReferences: getPaperDetails returns null when the
\* request fails or finds nothing (semantic-scholar-client.ts lines 161-164),
\* and lines 255 and 263 push only a paper
FetchOutcome(w) == IF w = "null" THEN "dropped" ELSE "pushed"

FetchRef(c) ==
  /\ pc[c] = "fetchRef"
  /\ loc[c].refsToFetch # <<>>
  /\ LET ref == Head(loc[c].refsToFetch)
     IN \E byDoi \in S2Answers(ref), byId \in S2Answers(ref) :
          LET w  == FetchedWork(ref, byDoi, byId)
              id == RefPaperId(c, loc[c].depth, Len(loc[c].fetchedPapers) + 1)
              looked  == Lookups(ref, byDoi)
              result == IF looked = <<>> THEN "skipped" ELSE FetchOutcome(w)
          IN CASE result = "pushed" ->
                  /\ loc' = [loc EXCEPT ![c].refsToFetch = Tail(@),
                                        ![c].lookups = looked,
                                        ![c].fetchedPapers = Append(@, id)]
                  /\ paperObj' = (id :> mapToPaper(id, "semantic_scholar", w, S2DetailRefs(w)))
                                   @@ paperObj
                  /\ UNCHANGED <<pc, hist>>
               [] result = "thrown" ->
                  /\ pc' = [pc EXCEPT ![c] = "catch"]
                  /\ loc' = [loc EXCEPT ![c] = LocThrow([@ EXCEPT !.lookups = looked],
                                                        "fetchRef")]
                  /\ hist' = [hist EXCEPT ![c] = [HistThrow(@) EXCEPT !.dropped = TRUE]]
                  /\ UNCHANGED paperObj
               [] OTHER ->
                  /\ loc' = [loc EXCEPT ![c].refsToFetch = Tail(@),
                                        ![c].lookups = looked]
                  /\ hist' = [hist EXCEPT ![c].dropped = @ \/ result = "dropped"]
                  /\ UNCHANGED <<pc, paperObj>>
  /\ NoWrite
  /\ UNCHANGED <<entry, query, session, outcome, search, dbPapers, dbSessions,
                 dbQueries, paperQueries, dbAnalyses, activeCrawlers, crawlState, indexed>>

\* filterExistingPapers (lines 327-343)
filterExistingPapers(heap, stored, papers) ==
  SelectSeq(papers, LAMBDA id :
    /\ ~ (heap[id].doi # NoString /\ findPaperByDOI(heap, stored, heap[id].doi) # NoId)
    /\ findPaperByTitle(heap, stored, heap[id].title) = NoId)

\* lines 269-277: the fetch loop is over; dedup, filter, start saving newRefs
AfterFetch(c) ==
  /\ pc[c] = "fetchRef"
  /\ loc[c].refsToFetch = <<>>
  /\ IF loc[c].fetchedPapers = <<>>
     THEN /\ pc' = [pc EXCEPT ![c] = "getPapersForQuery"]
          /\ hist' = [hist EXCEPT ![c].done = @ \cup {"refs"}, ![c].phase = "analysis",
                                  ![c].levels = Append(@, 0)]
          /\ UNCHANGED <<loc, paperObj>>
     ELSE LET r       == deduplicatePapers(loc[c].fetchedPapers, paperObj)
              newRefs == filterExistingPapers(r.heap, dbPapers, r.list)
          IN /\ paperObj' = r.heap
             /\ loc' = [loc EXCEPT ![c].batch = newRefs, ![c].idx = 1]
             /\ pc' = [pc EXCEPT ![c] = IF newRefs = <<>> THEN AfterBatch(loc[c].depth)
                                        ELSE "findByDOI"]
             /\ UNCHANGED hist
  /\ NoWrite
  /\ UNCHANGED <<entry, query, session, outcome, search, dbPapers, dbSessions,
                 dbQueries, paperQueries, dbAnalyses, activeCrawlers, crawlState, indexed>>

\* line 282 without `&& newRefs.length > 0`
GoesDeeperWhileAllowed(c) == loc[c].depth < query[c].maxReferenceDepth

\* line 282: does followReferences call itself for the next level
GoesDeeper(c) ==
  loc[c].depth < query[c].maxReferenceDepth /\ loc[c].batch # <<>>

\* lines 279-284: count, save the session, recurse one level deeper or return
SaveSession280(c) ==
  /\ pc[c] = "saveSession280"
  /\ session' = [session EXCEPT ![c].papersFound = @ + Len(loc[c].batch)]
  /\ dbSessions' = dbSessions \cup {c}
  /\ \E ok \in BOOLEAN :
       /\ WriteOutcome(ok)
       /\ IF ~ ok
          THEN /\ pc' = [pc EXCEPT ![c] = "catch"]
               /\ loc' = [loc EXCEPT ![c] = LocThrow(@, "saveSession280")]
               /\ hist' = [hist EXCEPT ![c] = HistThrow(@)]
          ELSE IF GoesDeeper(c)
          THEN /\ pc' = [pc EXCEPT ![c] = "followReferences"]
               /\ loc' = [loc EXCEPT ![c].depth = @ + 1]
               /\ hist' = [hist EXCEPT ![c].levels = Append(@, Len(loc[c].batch))]
          ELSE /\ pc' = [pc EXCEPT ![c] = "getPapersForQuery"]
               /\ UNCHANGED loc
               /\ hist' = [hist EXCEPT ![c].done = @ \cup {"refs"}, ![c].phase = "analysis",
                                       ![c].levels = Append(@, Len(loc[c].batch))]
  /\ UNCHANGED <<entry, query, outcome, search, paperObj, dbPapers, dbQueries,
                 paperQueries, dbAnalyses, activeCrawlers, crawlState, indexed>>


(***************************************************************************)
(* Phase 5, lines 71-74 and analyzePapers (lines 288-308).                 *)
(***************************************************************************)
\* line 73
GetPapersForQuery(c) ==
  /\ pc[c] = "getPapersForQuery"
  /\ loc' = [loc EXCEPT ![c].batch = getPapersForQuery(dbPapers, paperQueries, query[c].id),
                        ![c].idx = 1, ![c].toAnalyze = <<>>]
  /\ pc' = [pc EXCEPT ![c] = "quickScreen"]
  /\ NoWrite
  /\ UNCHANGED <<entry, query, session, outcome, search, storeVars, activeCrawlers, crawlState, hist, indexed>>

\* what generateContent can come back with (ai/gemini-analyzer.ts lines
\* 103-109): the call throws; the text holds no {...}; the {...} does not
\* parse; it parses to an object without shouldAnalyze; to an object whose
\* shouldAnalyze is not a boolean (a non-empty string such as "false"); or to
\* an object with shouldAnalyze true / false
ClassifierAnswers ==
  {"throws", "no JSON", "malformed JSON", "no shouldAnalyze", "not boolean", "true", "false"}

\* quickScreen(paper).shouldAnalyze for a classifier answer: JSON.parse's
\* object is returned as it is (line 107), the default of line 114 is
\* returned when the call or the parse threw or nothing matched
quickScreen(answer) ==
  CASE answer \in {"throws", "no JSON", "malformed JSON"} -> "true"
    [] answer = "no shouldAnalyze" -> "undefined"
    [] answer = "not boolean" -> "string"
    [] OTHER -> answer

\* lines 291-296: quickScreen never throws; the paper is pushed when
\* screen.shouldAnalyze is truthy
QuickScreen(c) ==
  /\ pc[c] = "quickScreen"
  /\ loc[c].idx <= Len(loc[c].batch)
  /\ \E answer \in ClassifierAnswers :
       loc' = [loc EXCEPT ![c].idx = @ + 1,
                          ![c].screen = answer,
                          ![c].screens = Append(@, quickScreen(answer)),
                          ![c].toAnalyze = IF quickScreen(answer) \in {"true", "string"}
                                           THEN Append(@, loc[c].batch[loc[c].idx]) ELSE @]
  /\ NoWrite
  /\ UNCHANGED <<pc, entry, query, session, outcome, search, storeVars, activeCrawlers, crawlState, hist, indexed>>

\* line 300: batchAnalyzePapers returns one analysis per paper (analyzePaper
\* falls back to createDefaultAnalysis when the call fails)
BatchAnalyze(c) ==
  /\ pc[c] = "quickScreen"
  /\ loc[c].idx > Len(loc[c].batch)
  /\ loc' = [loc EXCEPT ![c].analyses = loc[c].toAnalyze, ![c].screen = "none"]
  /\ pc' = [pc EXCEPT ![c] = IF loc[c].toAnalyze = <<>> THEN "saveSession307" ELSE "saveAnalysis"]
  /\ NoWrite
  /\ UNCHANGED <<entry, query, session, outcome, search, storeVars, activeCrawlers, crawlState, hist, indexed>>

\* saveAnalysis (lines 101-112): one entry per paperId
saveAnalysis(analyses, paperId) ==
  IF paperId \in Range(analyses) THEN analyses ELSE Append(analyses, paperId)

\* lines 302-305
SaveAnalysis(c) ==
  /\ pc[c] = "saveAnalysis"
  /\ dbAnalyses' = saveAnalysis(dbAnalyses, Head(loc[c].analyses))
  /\ \E ok \in BOOLEAN :
       /\ WriteOutcome(ok)
       /\ IF ok
          THEN /\ session' = [session EXCEPT ![c].papersAnalyzed = @ + 1]
               /\ loc' = [loc EXCEPT ![c].analyses = Tail(@)]
               /\ pc' = [pc EXCEPT ![c] = IF Len(loc[c].analyses) = 1 THEN "saveSession307"
                                          ELSE "saveAnalysis"]
               /\ UNCHANGED hist
          ELSE /\ UNCHANGED session
               /\ loc' = [loc EXCEPT ![c] = LocThrow(@, "saveAnalysis")]
               /\ pc' = [pc EXCEPT ![c] = "catch"]
               /\ hist' = [hist EXCEPT ![c] = HistThrow(@)]
  /\ UNCHANGED <<entry, query, outcome, search, paperObj, dbPapers, dbSessions,
                 dbQueries, paperQueries, activeCrawlers, crawlState, indexed>>

\* line 307
SaveSession307(c) ==
  /\ pc[c] = "saveSession307"
  /\ dbSessions' = dbSessions \cup {c}
  /\ \E ok \in BOOLEAN :
       /\ WriteOutcome(ok)
       /\ IF ok
          THEN /\ pc' = [pc EXCEPT ![c] = "complete"]
               /\ UNCHANGED loc
               /\ hist' = [hist EXCEPT ![c].done = @ \cup {"analysis"}, ![c].phase = "finalize"]
          ELSE /\ pc' = [pc EXCEPT ![c] = "catch"]
               /\ loc' = [loc EXCEPT ![c] = LocThrow(@, "saveSession307")]
               /\ hist' = [hist EXCEPT ![c] = HistThrow(@)]
  /\ UNCHANGED <<entry, query, session, outcome, search, paperObj, dbPapers,
                 dbQueries, paperQueries, dbAnalyses, activeCrawlers, crawlState, indexed>>

(***************************************************************************)
(* Lines 76-83: completion, still inside the try block.                    *)
(***************************************************************************)
\* lines 76-78
Complete(c) ==
  /\ pc[c] = "complete"
  /\ session' = [session EXCEPT ![c].status = "completed", ![c].completedAt = TRUE]
  /\ dbSessions' = dbSessions \cup {c}
  /\ \E ok \in BOOLEAN :
       /\ WriteOutcome(ok)
       /\ pc' = [pc EXCEPT ![c] = IF ok THEN "updateQuery81" ELSE "catch"]
       /\ loc' = IF ok THEN loc ELSE [loc EXCEPT ![c] = LocThrow(@, "saveSession78")]
       /\ hist' = IF ok THEN hist ELSE [hist EXCEPT ![c] = HistThrow(@)]
  /\ UNCHANGED <<entry, query, outcome, search, paperObj, dbPapers, dbQueries,
                 paperQueries, dbAnalyses, activeCrawlers, crawlState, indexed>>

\* lines 81-83: updateQuery writes only when the query is stored
UpdateQuery81(c) ==
  /\ pc[c] = "updateQuery81"
  /\ dbQueries' = updateQuery(dbQueries, query[c].id, "completed", session[c].papersFound)
  /\ \E ok \in BOOLEAN :
       /\ IF query[c].id \in DOMAIN dbQueries THEN WriteOutcome(ok) ELSE ok /\ NoWrite
       /\ IF ok
          THEN /\ pc' = [pc EXCEPT ![c] = "done"]
               /\ Settle(c, "returned", "none")
               /\ UNCHANGED <<loc, hist>>
          ELSE /\ pc' = [pc EXCEPT ![c] = "catch"]
               /\ loc' = [loc EXCEPT ![c] = LocThrow(@, "updateQuery81")]
               /\ hist' = [hist EXCEPT ![c] = HistThrow(@)]
               /\ UNCHANGED <<outcome, activeCrawlers, crawlState>>
  /\ UNCHANGED <<entry, query, session, search, paperObj, dbPapers, dbSessions,
                 paperQueries, dbAnalyses, indexed>>

(***************************************************************************)
(* Lines 84-92: the catch block.                                           *)
(***************************************************************************)
\* the catch block without line 87
CatchSessionNoStatus(s, message) ==
  [s EXCEPT !.errors = Append(@, message), !.completedAt = TRUE]

\* lines 85-88: the session object after the catch block's assignments
CatchSession(s, message) ==
  [s EXCEPT !.errors = Append(@, message), !.status = "failed", !.completedAt = TRUE]

\* lines 85-89
Catch(c) ==
  /\ pc[c] = "catch"
  /\ session' = [session EXCEPT ![c] = CatchSession(@, loc[c].error)]
  /\ dbSessions' = dbSessions \cup {c}
  /\ \E ok \in BOOLEAN :
       /\ WriteOutcome(ok)
       /\ IF ok
          THEN /\ pc' = [pc EXCEPT ![c] = "updateQuery90"]
               /\ UNCHANGED <<outcome, activeCrawlers, crawlState>>
          ELSE /\ pc' = [pc EXCEPT ![c] = "done"]
               /\ Settle(c, "raised", "saveSession89")
  /\ UNCHANGED <<entry, query, search, loc, paperObj, dbPapers, dbQueries,
                 paperQueries, dbAnalyses, hist, indexed>>

\* lines 90-91
UpdateQuery90(c) ==
  /\ pc[c] = "updateQuery90"
  /\ dbQueries' = updateQuery(dbQueries, query[c].id, "failed", session[c].papersFound)
  /\ \E ok \in BOOLEAN :
       /\ IF query[c].id \in DOMAIN dbQueries THEN WriteOutcome(ok) ELSE ok /\ NoWrite
       /\ Settle(c, "raised", IF ok THEN loc[c].error ELSE "updateQuery90")
  /\ pc' = [pc EXCEPT ![c] = "done"]
  /\ UNCHANGED <<entry, query, session, search, loc, paperObj, dbPapers, dbSessions,
                 paperQueries, dbAnalyses, hist, indexed>>

(***************************************************************************)
(* The system.                                                             *)
(***************************************************************************)
\* one step of PaperCrawler.crawl
CrawlStep(c) ==
    \/ SaveSession47(c)
    \/ \E a \in Adapters : AdapterSettle(c, a)
    \/ Collect(c)
    \/ Dedupe(c)
    \/ FindByDOI(c)
    \/ FindByTitle(c)
    \/ SavePaper(c)
    \/ LinkPaper(c)
    \/ SaveSession64(c)
    \/ FollowReferences(c)
    \/ FetchRef(c)
    \/ AfterFetch(c)
    \/ SaveSession280(c)
    \/ GetPapersForQuery(c)
    \/ QuickScreen(c)
    \/ BatchAnalyze(c)
    \/ SaveAnalysis(c)
    \/ SaveSession307(c)
    \/ Complete(c)
    \/ UpdateQuery81(c)
    \/ Catch(c)
    \/ UpdateQuery90(c)

Next ==
  \E c \in Crawls :
    \/ EnterCLI(c)
    \/ HttpSaveQuery(c)
    \/ HttpUpdateQuery(c)
    \/ EnterScheduled(c)
    \/ CrawlStep(c)

Spec == Init /\ [][Next]_vars

\* the event loop runs every callback that is ready: a step that can be
\* taken is taken
SpecFair == Spec /\ WF_vars(Next)

\* the same system against CitingWorld
InitRefs == StoreInit /\ CrawlInit({"c1"}) /\ indexed = CitingWorld

SpecRefs == InitRefs /\ [][Next]_vars


(***************************************************************************)
(* One level of followReferences (lines 230-277) over seeds with long      *)
(* reference lists.  The seeds are the papers of Level 0, already saved    *)
(* and linked; seed i lists `len` identifiers starting at number           *)
(* (i-1)*stride of the identifiers below, so that lists longer than        *)
(* RefsPerPaper, lists that overlap and more than RefsPerLevel distinct    *)
(* candidates all occur.                                                   *)
(***************************************************************************)
MaxSeeds == 7

\* a DOI that is as long as a Semantic Scholar paperId
LongDoi == [i \in 1..S2IdLength |-> IF i <= 5 THEN DoiLower("X")[i] ELSE "z"]

\* the identifiers the reference list of a merged Paper can hold: a DOI
\* Semantic Scholar knows, a paperId it knows, the long DOI (CrossRef's and
\* Semantic Scholar's records list DOIs and paperIds), and OpenAlex work ids
CandidateId(n) ==
  CASE n = 0 -> DoiLower("Y")
    [] n = 1 -> S2PaperId("X")
    [] n = 2 -> LongDoi
    [] OTHER -> <<"W", DigitChars[(n \div 10) + 1], DigitChars[(n % 10) + 1]>>

RefListLengths == {0, RefsPerPaper - 1, RefsPerPaper, RefsPerPaper + 2}

RefListStrides == {0, 3, RefsPerPaper, RefsPerPaper + 1}

SeedId(i) == PaperIdOf("c1", "openalex", i)

\* seed i: a Paper with its own DOI and title
LevelSeed(i, len, stride) ==
  [mapToPaper(SeedId(i), "openalex", "X",
              [k \in 1..len |-> CandidateId((i - 1) * stride + k - 1)])
     EXCEPT !.doi = @ \o <<DigitChars[i]>>, !.title = @ \o <<DigitChars[i]>>]

InitLevel ==
  \E n \in 1..MaxSeeds, len \in RefListLengths, stride \in RefListStrides :
    LET seeds == [i \in 1..n |-> SeedId(i)]
        o     == [includeReferences |-> TRUE, maxReferenceDepth |-> MaxDepth]
    IN /\ paperObj = [id \in Range(seeds) |->
                        LevelSeed(CHOOSE i \in 1..n : SeedId(i) = id, len, stride)]
       /\ dbPapers = seeds
       /\ dbSessions = {"c1"}
       /\ dbQueries = (QueryId("c1") :> StoredQuery("running", o))
       /\ paperQueries = [i \in 1..n |-> [paperId |-> SeedId(i),
                                          queryId |-> QueryId("c1"), depth |-> 0]]
       /\ dbAnalyses = << >>
       /\ activeCrawlers = {}
       /\ crawlState = NoCrawlState
       /\ writeFailures = 0
       /\ indexed = FullWorld
       /\ pc = [c \in Crawls |-> IF c = "c1" THEN "followReferences" ELSE "off"]
       /\ entry = [c \in Crawls |-> IF c = "c1" THEN "cli" ELSE "none"]
       /\ query = [c \in Crawls |-> IF c = "c1" THEN NewQuery(c, o) ELSE NoQuery]
       /\ session = [c \in Crawls |->
                       IF c = "c1" THEN [NewSession EXCEPT !.papersFound = n]
                       ELSE NewSession]
       /\ outcome = [c \in Crawls |-> NoOutcome]
       /\ search = [c \in Crawls |-> PendingSearch]
       /\ loc = [c \in Crawls |->
                   IF c = "c1" THEN [InitLoc EXCEPT !.uniquePapers = seeds,
                                                    !.batch = seeds, !.depth = 1]
                   ELSE InitLoc]
       /\ hist = [c \in Crawls |->
                    IF c = "c1" THEN [InitHist EXCEPT !.done = {"search", "persist"},
                                                     !.phase = "refs"]
                    ELSE InitHist]

NextLevel == \E c \in Crawls : FollowReferences(c) \/ FetchRef(c) \/ AfterFetch(c)

SpecLevel == InitLevel /\ [][NextLevel]_vars


(***************************************************************************)
(* mergePaperData (lines 189-228) on its own: `existing` and `newPaper`    *)
(* are records of one work from any two providers, with keyword and        *)
(* reference lists of up to MaxListLen entries, duplicates included        *)
(* (CrossRef's reference DOIs and subjects and Scopus' authkeywords are    *)
(* not deduplicated by mapToPaper).  The Paper under BeforeId is the value *)
(* `existing` had when the call was made.                                  *)
(***************************************************************************)
MaxListLen == 2

ListsOver(alphabet) ==
  UNION { [1..n -> alphabet] : n \in 0..MaxListLen }

KeywordChoices == {"k1", "k2"}

RefChoices == {DoiLower("Y"), OpenAlexWorkId("Y")}

ExistingId(a) == PaperIdOf("c1", a, 1)

NewPaperId(a) == PaperIdOf("c1", a, 2)

BeforeId == <<"c1", "before">>

InitMerge ==
  \E a1 \in Adapters, a2 \in Adapters, w \in Works,
     r1 \in ListsOver(RefChoices), k1 \in ListsOver(KeywordChoices),
     n \in 0..MaxListLen, f \in [1..MaxListLen -> {1, 2}] :
    LET r2 == [i \in 1..n |-> IF f[i] = 1 THEN DoiLower("Y") ELSE OpenAlexWorkId("Y")]
        k2 == [i \in 1..n |-> IF f[i] = 1 THEN "k1" ELSE "k2"]
        existing == [mapToPaper(ExistingId(a1), a1, w, r1) EXCEPT !.keywords = k1]
        newPaper == [mapToPaper(NewPaperId(a2), a2, w, r2) EXCEPT !.keywords = k2]
    IN /\ paperObj = (ExistingId(a1) :> existing) @@ (NewPaperId(a2) :> newPaper)
                        @@ (BeforeId :> existing)
       /\ loc = [c \in Crawls |->
                   IF c = "c1" THEN [InitLoc EXCEPT !.batch = <<ExistingId(a1), NewPaperId(a2)>>]
                   ELSE InitLoc]
       /\ pc = [c \in Crawls |-> IF c = "c1" THEN "merge" ELSE "off"]
       /\ dbPapers = << >>
       /\ dbSessions = {}
       /\ dbQueries = << >>
       /\ paperQueries = << >>
       /\ dbAnalyses = << >>
       /\ activeCrawlers = {}
       /\ crawlState = NoCrawlState
       /\ writeFailures = 0
       /\ indexed = FullWorld
       /\ entry = [c \in Crawls |-> "none"]
       /\ query = [c \in Crawls |-> NoQuery]
       /\ session = [c \in Crawls |-> NewSession]
       /\ outcome = [c \in Crawls |-> NoOutcome]
       /\ search = [c \in Crawls |-> PendingSearch]
       /\ hist = [c \in Crawls |-> InitHist]

\* mergePaperData(p, p)
MergeSelf(c) ==
  /\ pc[c] = "merge"
  /\ paperObj' = [paperObj EXCEPT ![loc[c].batch[1]] = mergePaperData(@, @)]
  /\ pc' = [pc EXCEPT ![c] = "mergedSelf"]
  /\ NoWrite
  /\ UNCHANGED <<entry, query, session, outcome, search, loc, dbPapers, dbSessions,
                 dbQueries, paperQueries, dbAnalyses, activeCrawlers, crawlState, hist, indexed>>

\* mergePaperData(existing, newPaper) as deduplicatePapers calls it (line 174):
\* the two have the same key
MergeOther(c) ==
  /\ pc[c] = "merge"
  /\ IdentityKey(paperObj[loc[c].batch[1]]) = IdentityKey(paperObj[loc[c].batch[2]])
  /\ paperObj' = [paperObj EXCEPT ![loc[c].batch[1]] =
                    mergePaperData(@, paperObj[loc[c].batch[2]])]
  /\ pc' = [pc EXCEPT ![c] = "merged"]
  /\ NoWrite
  /\ UNCHANGED <<entry, query, session, outcome, search, loc, dbPapers, dbSessions,
                 dbQueries, paperQueries, dbAnalyses, activeCrawlers, crawlState, hist, indexed>>

NextMerge == \E c \in Crawls : MergeSelf(c) \/ MergeOther(c)

SpecMerge == InitMerge /\ [][NextMerge]_vars


(***************************************************************************)
(* deduplicatePapers (line 56) on any list of up to MaxInput provider      *)
(* records of the two works, in any order of providers.                    *)
(***************************************************************************)
MaxInput == 3

InitDedupe ==
  \E n \in 0..MaxInput, as \in [1..MaxInput -> Adapters], ws \in [1..MaxInput -> Works] :
    LET ids == [k \in 1..n |-> PaperIdOf("c1", as[k], k)]
        o   == [includeReferences |-> TRUE, maxReferenceDepth |-> MaxDepth]
    IN /\ paperObj = [id \in Range(ids) |->
                        mapToPaper(id, id[2], ws[id[3]], ProviderSearchRefs(id[2], ws[id[3]]))]
       /\ loc = [c \in Crawls |->
                   IF c = "c1" THEN [InitLoc EXCEPT !.allPapers = ids] ELSE InitLoc]
       /\ pc = [c \in Crawls |-> IF c = "c1" THEN "dedupe" ELSE "off"]
       /\ hist = [c \in Crawls |->
                    IF c = "c1" THEN [InitHist EXCEPT !.done = {"search"}, !.phase = "search"]
                    ELSE InitHist]
       /\ entry = [c \in Crawls |-> IF c = "c1" THEN "cli" ELSE "none"]
       /\ query = [c \in Crawls |-> IF c = "c1" THEN NewQuery(c, o) ELSE NoQuery]
       /\ dbQueries = (QueryId("c1") :> StoredQuery("running", o))
       /\ dbSessions = {"c1"}
       /\ dbPapers = << >>
       /\ paperQueries = << >>
       /\ dbAnalyses = << >>
       /\ activeCrawlers = {}
       /\ crawlState = NoCrawlState
       /\ writeFailures = 0
       /\ indexed = FullWorld
       /\ session = [c \in Crawls |-> NewSession]
       /\ outcome = [c \in Crawls |-> NoOutcome]
       /\ search = [c \in Crawls |-> PendingSearch]

SpecDedupe == InitDedupe /\ [][\E c \in Crawls : Dedupe(c)]_vars


(***************************************************************************)
(* deduplicatePapers on two Papers without a DOI: the first has any title  *)
(* of up to MaxTitleLen characters, the second the same title with one     *)
(* character removed, changed in case or replaced by another letter; or    *)
(* the two are the titles of the example.                                  *)
(***************************************************************************)
MaxTitleLen == 4

TitleChars == {"a", "B", " ", "\t", ","}

Titles == UNION { [1..n -> TitleChars] : n \in 0..MaxTitleLen }

ExampleTitle ==
  <<"D","e","e","p"," ","L","e","a","r","n","i","n","g",","," ","2","0","2","0","!">>

ExamplePlain ==
  <<"d","e","e","p"," ","l","e","a","r","n","i","n","g"," ","2","0","2","0">>

Removed(t, i) == SubSeq(t, 1, i - 1) \o SubSeq(t, i + 1, Len(t))

OtherCase(ch) ==
  IF \E i \in DOMAIN LowerChars : LowerChars[i] = ch
  THEN UpperChars[CHOOSE i \in DOMAIN LowerChars : LowerChars[i] = ch]
  ELSE LowerChar(ch)

TitleVariants(t) ==
  { Removed(t, i) : i \in DOMAIN t }
    \cup { [t EXCEPT ![i] = OtherCase(@)] : i \in DOMAIN t }
    \cup { [t EXCEPT ![i] = "z"] : i \in DOMAIN t }

\* a record without a DOI (Scopus' record of Y) carrying the title
TitledPaper(k, title) ==
  [mapToPaper(PaperIdOf("c1", "scopus", k), "scopus", "Y", <<>>) EXCEPT !.title = title]

InitTitles ==
  \E t1 \in Titles \cup {ExampleTitle} :
  \E t2 \in IF t1 = ExampleTitle THEN {ExamplePlain} ELSE TitleVariants(t1) :
  \E swap \in BOOLEAN :
    LET ids == <<PaperIdOf("c1", "scopus", 1), PaperIdOf("c1", "scopus", 2)>>
        o   == [includeReferences |-> TRUE, maxReferenceDepth |-> MaxDepth]
    IN /\ paperObj = (ids[1] :> TitledPaper(1, IF swap THEN t2 ELSE t1))
                        @@ (ids[2] :> TitledPaper(2, IF swap THEN t1 ELSE t2))
       /\ loc = [c \in Crawls |->
                   IF c = "c1" THEN [InitLoc EXCEPT !.allPapers = ids] ELSE InitLoc]
       /\ pc = [c \in Crawls |-> IF c = "c1" THEN "dedupe" ELSE "off"]
       /\ hist = [c \in Crawls |->
                    IF c = "c1" THEN [InitHist EXCEPT !.done = {"search"}, !.phase = "search"]
                    ELSE InitHist]
       /\ entry = [c \in Crawls |-> IF c = "c1" THEN "cli" ELSE "none"]
       /\ query = [c \in Crawls |-> IF c = "c1" THEN NewQuery(c, o) ELSE NoQuery]
       /\ dbQueries = (QueryId("c1") :> StoredQuery("running", o))
       /\ dbSessions = {"c1"}
       /\ dbPapers = << >>
       /\ paperQueries = << >>
       /\ dbAnalyses = << >>
       /\ activeCrawlers = {}
       /\ crawlState = NoCrawlState
       /\ writeFailures = 0
       /\ indexed = FullWorld
       /\ session = [c \in Crawls |-> NewSession]
       /\ outcome = [c \in Crawls |-> NoOutcome]
       /\ search = [c \in Crawls |-> PendingSearch]

SpecTitles == InitTitles /\ [][\E c \in Crawls : Dedupe(c)]_vars


(***************************************************************************)
(* BaseApiClient (api/base-client.ts): request() and the response          *)
(* interceptor.  Each of two callers has one request in hand (the limiter  *)
(* lets several run at once); the provider answers every attempt with a    *)
(* response, with 429 (with or without a retry-after header) or with       *)
(* another error.  The model stops sending after MaxAttempts attempts.     *)
(***************************************************************************)
MaxAttempts == 3

ProviderAnswers == {"ok", "429", "429 retry-after", "error"}

InitRequest ==
  /\ StoreInit
  /\ indexed = FullWorld
  /\ pc = [c \in Crawls |-> "request"]
  /\ entry = [c \in Crawls |-> "none"]
  /\ query = [c \in Crawls |-> NoQuery]
  /\ session = [c \in Crawls |-> NewSession]
  /\ outcome = [c \in Crawls |-> NoOutcome]
  /\ search = [c \in Crawls |-> PendingSearch]
  /\ loc = [c \in Crawls |-> InitLoc]
  /\ hist = [c \in Crawls |-> InitHist]

\* this.client.request(config) (line 51, and line 38 for a retry): the
\* attempt is made and the response interceptor sees the provider's answer.
\* 2xx: fulfilled (line 28-29); 429: the handler starts its delay (lines
\* 32-36); anything else is thrown on (line 40)
SendRequest(c) ==
  /\ pc[c] = "request"
  /\ Len(loc[c].responses) < MaxAttempts
  /\ \E answer \in ProviderAnswers :
       /\ loc' = [loc EXCEPT ![c].responses = Append(@, answer),
                             ![c].delay = CASE answer = "429 retry-after" -> "retry-after"
                                            [] answer = "429" -> "default"
                                            [] OTHER -> @]
       /\ pc' = [pc EXCEPT ![c] = CASE answer = "ok" -> "fulfilled"
                                    [] answer = "error" -> "rejected"
                                    [] OTHER -> "retryWait"]
  /\ NoWrite
  /\ UNCHANGED <<entry, query, session, outcome, search, storeVars, activeCrawlers, crawlState,
                 hist, indexed>>

\* lines 37-38: the delay is over, `return this.client.request(error.config)`:
\* the same request through the same client, interceptors included
RetryAfterDelay(c) ==
  /\ pc[c] = "retryWait"
  /\ pc' = [pc EXCEPT ![c] = "request"]
  /\ NoWrite
  /\ UNCHANGED <<entry, query, session, outcome, search, loc, storeVars,
                 activeCrawlers, crawlState, hist, indexed>>

SpecRequest ==
  InitRequest /\ [][\E c \in Crawls : SendRequest(c) \/ RetryAfterDelay(c)]_vars


(***************************************************************************)
(* The components beside crawl() are modelled in pc and loc alone; the     *)
(* store and the crawl's other variables stay as they start.               *)
(***************************************************************************)
AsideInit ==
  /\ StoreInit
  /\ indexed = FullWorld
  /\ entry = [c \in Crawls |-> "none"]
  /\ query = [c \in Crawls |-> NoQuery]
  /\ session = [c \in Crawls |-> NewSession]
  /\ outcome = [c \in Crawls |-> NoOutcome]
  /\ search = [c \in Crawls |-> PendingSearch]
  /\ hist = [c \in Crawls |-> InitHist]

AsideUnchanged ==
  /\ NoWrite
  /\ UNCHANGED <<entry, query, session, outcome, search, storeVars, activeCrawlers, crawlState,
                 hist, indexed>>


(***************************************************************************)
(* BaseApiClient.request through the limiter: one adapter instance with    *)
(* requestsPerSecond in 1..MaxRate and MaxCalls calls of request().        *)
(* this.limiter is pLimit(requestsPerSecond) (line 15): limiter(fn) runs   *)
(* fn at once while fewer than that many are running, else queues it, and  *)
(* when a running fn settles it starts the head of the queue.  fn is the   *)
(* whole of lines 50-53: the attempt, the interceptor's delays and its     *)
(* retries.                                                                *)
(***************************************************************************)
MaxCalls == 3

MaxRate == 2

Calls == 1..MaxCalls

\* the limiter starting everything at once
LimiterHasRoomAlways(activeCount, requestsPerSecond) == TRUE

\* pLimit: activeCount < concurrency
LimiterHasRoom(activeCount, requestsPerSecond) == activeCount < requestsPerSecond

InitLimiter ==
  /\ AsideInit
  /\ pc = [c \in Crawls |-> IF c = "c1" THEN "limiter" ELSE "off"]
  /\ \E rate \in 1..MaxRate :
       loc = [c \in Crawls |->
                IF c = "c1"
                THEN [InitLoc EXCEPT !.limiter =
                        [requestsPerSecond |-> rate, activeCount |-> 0, queue |-> <<>>,
                         call |-> [k \in Calls |-> "idle"],
                         attempts |-> [k \in Calls |-> 0]]]
                ELSE InitLoc]

\* request(config), line 50: this.limiter(async () => ...)
IssueCall(k) ==
  /\ pc["c1"] = "limiter"
  /\ loc["c1"].limiter.call[k] = "idle"
  /\ LET l == loc["c1"].limiter
     IN loc' = [loc EXCEPT !["c1"].limiter =
                  IF LimiterHasRoom(l.activeCount, l.requestsPerSecond)
                  THEN [l EXCEPT !.activeCount = @ + 1, !.call[k] = "request"]
                  ELSE [l EXCEPT !.queue = Append(@, k), !.call[k] = "queued"]]
  /\ UNCHANGED pc
  /\ AsideUnchanged

\* the limiter after call k settled: the count goes down and the head of the
\* queue, if any, is started
LimiterNext(l, k, result) ==
  IF l.queue = <<>>
  THEN [l EXCEPT !.activeCount = @ - 1, !.call[k] = result]
  ELSE [l EXCEPT !.queue = Tail(@), !.call[k] = result, !.call[Head(l.queue)] = "request"]

\* this.client.request(config), line 51 or line 38: the provider answers.
\* 2xx: the interceptor delays 1000 / requestsPerSecond ms (line 28); 429:
\* the handler delays and retries (lines 32-38); else the error is thrown
\* (line 40) and the limiter's function rejects
AttemptCall(k) ==
  /\ pc["c1"] = "limiter"
  /\ loc["c1"].limiter.call[k] = "request"
  /\ loc["c1"].limiter.attempts[k] < MaxAttempts
  /\ \E answer \in ProviderAnswers :
       LET l == [loc["c1"].limiter EXCEPT !.attempts[k] = @ + 1]
       IN loc' = [loc EXCEPT !["c1"].limiter =
                    CASE answer = "ok" -> [l EXCEPT !.call[k] = "pacing"]
                      [] answer = "error" -> LimiterNext(l, k, "rejected")
                      [] OTHER -> [l EXCEPT !.call[k] = "retryWait"]]
  /\ UNCHANGED pc
  /\ AsideUnchanged

\* line 38: return this.client.request(error.config)
RetryCall(k) ==
  /\ pc["c1"] = "limiter"
  /\ loc["c1"].limiter.call[k] = "retryWait"
  /\ loc' = [loc EXCEPT !["c1"].limiter.call[k] = "request"]
  /\ UNCHANGED pc
  /\ AsideUnchanged

\* lines 29 and 52: the response is returned, the limiter's function fulfils
FulfilCall(k) ==
  /\ pc["c1"] = "limiter"
  /\ loc["c1"].limiter.call[k] = "pacing"
  /\ loc' = [loc EXCEPT !["c1"].limiter = LimiterNext(@, k, "fulfilled")]
  /\ UNCHANGED pc
  /\ AsideUnchanged

SpecLimiter ==
  InitLimiter
    /\ [][\E k \in Calls : IssueCall(k) \/ AttemptCall(k) \/ RetryCall(k) \/ FulfilCall(k)]_vars


(***************************************************************************)
(* The web crawl route (web/src/app/api/crawl/route.ts): two POST          *)
(* requests, each running the handler of lines 303-451 and interleaving    *)
(* with the other at its awaits.  allPapers has up to MaxWebPapers papers  *)
(* and uniqueRefs up to MaxWebPapers identifiers; the handler's locals     *)
(* are in loc[c].web, crawlState is the module's one object.               *)
(***************************************************************************)
MaxWebPapers == 3

\* Math.round(num / den) for num >= 0, den > 0
Round(num, den) == (2 * num + den) \div (2 * den)

WebUnchanged ==
  /\ NoWrite
  /\ UNCHANGED <<entry, query, session, outcome, search, storeVars, activeCrawlers,
                 hist, indexed>>

InitWeb ==
  /\ AsideInit
  /\ pc = [c \in Crawls |-> "post"]
  /\ loc = [c \in Crawls |->
              [InitLoc EXCEPT !.web = [allPapers |-> 0, uniqueRefs |-> 0, i |-> 0,
                                       analyzedPapers |-> 0]]]

\* line 446-449: catch (error)
WebCatch(state) == [state EXCEPT !.isRunning = FALSE, !.error = TRUE]

\* lines 305-310: request.json() throws (the catch of line 446 runs), or the
\* keywords are refused with 400
PostRefused(c) ==
  /\ pc[c] = "post"
  /\ \/ pc' = [pc EXCEPT ![c] = "ended400"] /\ UNCHANGED crawlState
     \/ pc' = [pc EXCEPT ![c] = "ended500"] /\ crawlState' = WebCatch(crawlState)
  /\ UNCHANGED loc
  /\ WebUnchanged

\* lines 312-327: the state is reset and the three searches are awaited
PostReset(c) ==
  /\ pc[c] = "post"
  /\ crawlState' = [NoCrawlState EXCEPT !.isRunning = TRUE]
  /\ pc' = [pc EXCEPT ![c] = "search"]
  /\ UNCHANGED loc
  /\ WebUnchanged

\* lines 329-332: the searches are back (they catch their own errors);
\* deduplicatePapers and sort run, and throw on a record whose doi is not a
\* string; else totalPapers is set
PostSearched(c) ==
  /\ pc[c] = "search"
  /\ \/ /\ pc' = [pc EXCEPT ![c] = "ended500"]
        /\ crawlState' = WebCatch(crawlState)
        /\ UNCHANGED loc
     \/ \E n \in 0..MaxWebPapers :
          /\ crawlState' = [crawlState EXCEPT !.totalPapers = n]
          /\ loc' = [loc EXCEPT ![c].web.allPapers = n]
          /\ pc' = [pc EXCEPT ![c] = IF n = 0 THEN "references" ELSE "analyze"]
  /\ WebUnchanged

\* lines 338-360, one iteration: the analysis is back, the paper is pushed
\* and the state updated (the keys are those of deduplicatePapers, so line
\* 344 never skips)
PostAnalyzed(c) ==
  /\ pc[c] = "analyze"
  /\ LET w == loc[c].web
     IN /\ crawlState' = [crawlState EXCEPT
                            !.processedPapers = w.i + 1,
                            !.progress = Round((w.i + 1) * 50, w.allPapers)]
        /\ loc' = [loc EXCEPT ![c].web.i = IF w.i + 1 = w.allPapers THEN 0 ELSE w.i + 1,
                              ![c].web.analyzedPapers = @ + 1]
        /\ pc' = [pc EXCEPT ![c] = IF w.i + 1 = w.allPapers THEN "references" ELSE "analyze"]
  /\ WebUnchanged

\* lines 363-372: references are followed when maxDepth > 0 and some paper
\* is to be followed
PostReferences(c) ==
  /\ pc[c] = "references"
  /\ \/ /\ pc' = [pc EXCEPT ![c] = "summary"]
        /\ UNCHANGED <<crawlState, loc>>
     \/ /\ loc[c].web.allPapers > 0
        /\ \E m \in 0..MaxWebPapers :
             /\ crawlState' = [crawlState EXCEPT !.totalPapers = @ + m]
             /\ loc' = [loc EXCEPT ![c].web.uniqueRefs = m]
             /\ pc' = [pc EXCEPT ![c] = IF m = 0 THEN "summary" ELSE "fetchRef"]
  /\ WebUnchanged

\* lines 374-400, one iteration: the reference was looked up and, when found
\* and new, analyzed
PostRefFetched(c) ==
  /\ pc[c] = "fetchRef"
  /\ LET w == loc[c].web
     IN /\ crawlState' = [crawlState EXCEPT
                            !.progress = 50 + Round((w.i + 1) * 40, w.uniqueRefs)]
        /\ \E found \in BOOLEAN :
             loc' = [loc EXCEPT ![c].web.i = w.i + 1,
                                ![c].web.analyzedPapers = IF found THEN @ + 1 ELSE @]
        /\ pc' = [pc EXCEPT ![c] = IF w.i + 1 = w.uniqueRefs THEN "summary" ELSE "fetchRef"]
  /\ WebUnchanged

\* lines 404-405: progress 90, generateSummary is awaited
PostSummary(c) ==
  /\ pc[c] = "summary"
  /\ crawlState' = [crawlState EXCEPT !.progress = 90]
  /\ pc' = [pc EXCEPT ![c] = "finish"]
  /\ UNCHANGED loc
  /\ WebUnchanged

\* lines 407-444: the final state is assigned and the response returned
PostFinish(c) ==
  /\ pc[c] = "finish"
  /\ crawlState' = [NoCrawlState EXCEPT !.progress = 100,
                                        !.totalPapers = loc[c].web.analyzedPapers,
                                        !.processedPapers = loc[c].web.analyzedPapers]
  /\ pc' = [pc EXCEPT ![c] = "ended200"]
  /\ UNCHANGED loc
  /\ WebUnchanged

SpecWeb ==
  InitWeb
    /\ [][\E c \in Crawls :
            \/ PostRefused(c) \/ PostReset(c) \/ PostSearched(c) \/ PostAnalyzed(c)
            \/ PostReferences(c) \/ PostRefFetched(c) \/ PostSummary(c)
            \/ PostFinish(c)]_vars


(***************************************************************************)
(* The file-backed AcademicCrawler (crawler/paper-crawler.ts from line     *)
(* 552): crawl() and followReferences over the same world.  Its own        *)
(* search functions build the records; db.papers is a function from paper  *)
(* key to the stored record; analyzed lists the keys of the papers handed  *)
(* to analyzePaperWithRetry, in order.  The state is in loc["c1"].academic.*)
(***************************************************************************)
AcademicSources == <<"semantic_scholar", "openalex", "crossref">>

\* the Paper of searchSemanticScholar / searchOpenAlex / searchCrossRef and
\* of getPaperByDoi / getPaperById (lines 624-637, 671-686, 717-733, 753-766)
AcademicPaper(a, w, s2Doi) ==
  [ id         |-> CASE a = "semantic_scholar" -> S2PaperId(w)
                     [] a = "openalex" -> OpenAlexWorkId(w)
                     [] a = "crossref" -> ProviderDoi(a, w),
    doi        |-> IF a = "semantic_scholar" /\ ~s2Doi THEN NoString ELSE ProviderDoi(a, w),
    title      |-> ProviderTitle(a, w),
    references |-> [i \in DOMAIN Cites(w) |->
                      CASE a = "semantic_scholar" -> S2PaperId(Cites(w)[i])
                        [] a = "openalex" -> OpenAlexWorkId(Cites(w)[i])
                        [] a = "crossref" -> DoiLower(Cites(w)[i])],
    source     |-> a,
    work       |-> w ]

\* getPaperKey, lines 599-602
getPaperKey(paper) ==
  IF paper.doi # NoString THEN <<"doi", toLowerCase(paper.doi)>>
  ELSE <<"title", SelectSeq(toLowerCase(paper.title),
                            LAMBDA ch : ch \in Range(LowerChars) \/ ch \in Range(DigitChars))>>

\* lines 1020-1023: Object.keys(this.db.papers).find(k => this.db.papers[k].id
\* === refId || this.db.papers[k].doi === refId)
IsKnownReference(papers, refId) ==
  \E k \in DOMAIN papers : papers[k].id = refId \/ papers[k].doi = refId

InitAcademic ==
  /\ AsideInit
  /\ pc = [c \in Crawls |-> IF c = "c1" THEN "academicSearch" ELSE "off"]
  /\ \E d \in 0..MaxDepth, s2Doi \in BOOLEAN :
       loc = [c \in Crawls |->
                IF c = "c1"
                THEN [InitLoc EXCEPT !.academic =
                        [maxDepth |-> d, s2Doi |-> s2Doi, papers |-> <<>>,
                         analyzed |-> <<>>, uniquePapers |-> <<>>, toFollow |-> <<>>,
                         refs |-> <<>>, newPapers |-> <<>>, currentDepth |-> 0]]
                ELSE InitLoc]

\* crawl(), lines 916-940: the three searches answer with their records of
\* some of the works; papers already in the database and repeated keys are
\* left out (the records come sorted by citation count as it is)
AcademicSearch ==
  /\ pc["c1"] = "academicSearch"
  /\ \E found \in [DOMAIN AcademicSources -> SUBSET Works] :
       LET ac        == loc["c1"].academic
           recordsOf(i) ==
             LET ws == SelectSeq(<<"X", "Y">>, LAMBDA w : w \in found[i])
             IN [k \in DOMAIN ws |-> AcademicPaper(AcademicSources[i], ws[k], ac.s2Doi)]
           allPapers == recordsOf(1) \o recordsOf(2) \o recordsOf(3)
           isNew(i)  ==
             /\ getPaperKey(allPapers[i]) \notin DOMAIN ac.papers
             /\ \A j \in 1..(i - 1) : getPaperKey(allPapers[j]) # getPaperKey(allPapers[i])
           firsts    == { i \in DOMAIN allPapers : isNew(i) }
           unique    == [k \in 1..Cardinality(firsts) |->
                           allPapers[CHOOSE i \in firsts :
                                       Cardinality({ j \in firsts : j < i }) = k - 1]]
       IN /\ loc' = [loc EXCEPT !["c1"].academic.uniquePapers = unique]
          /\ pc' = [pc EXCEPT !["c1"] = "academicProcess"]
  /\ AsideUnchanged

\* crawl(), lines 948-979, one iteration: the paper is analyzed and stored
\* with depth 0, and queued when the analysis says must_read / should_read.
\* After the last one, lines 982-985 enter followReferences at depth 1
AcademicProcess ==
  /\ pc["c1"] = "academicProcess"
  /\ LET ac == loc["c1"].academic
     IN IF ac.uniquePapers # <<>>
        THEN \E follow \in BOOLEAN :
               LET paper == Head(ac.uniquePapers)
                   key   == getPaperKey(paper)
                   rec   == [id |-> paper.id, doi |-> paper.doi, depth |-> 0]
               IN /\ loc' = [loc EXCEPT !["c1"].academic =
                               [ac EXCEPT !.uniquePapers = Tail(@),
                                          !.analyzed = Append(@, key),
                                          !.papers = (key :> rec) @@ @,
                                          !.toFollow = IF follow THEN Append(@, paper) ELSE @]]
                  /\ UNCHANGED pc
        ELSE IF ac.maxDepth > 0 /\ ac.toFollow # <<>>
             THEN /\ loc' = [loc EXCEPT !["c1"].academic =
                               [ac EXCEPT !.currentDepth = 1,
                                          !.refs = Flatten([i \in DOMAIN ac.toFollow |->
                                                      slice(ac.toFollow[i].references, 5)]),
                                          !.toFollow = <<>>]]
                  /\ pc' = [pc EXCEPT !["c1"] = "academicRefs"]
             ELSE /\ pc' = [pc EXCEPT !["c1"] = "academicDone"]
                  /\ UNCHANGED loc
  /\ AsideUnchanged

\* followReferences, lines 1015-1072, one reference: skipped when a stored
\* record has it as id or doi; else fetched from Semantic Scholar (by DOI
\* when it holds a slash, by id otherwise; null when that fails), analyzed
\* and stored under its key with the current depth.  A record found by DOI
\* carries a DOI
AcademicReference ==
  /\ pc["c1"] = "academicRefs"
  /\ loc["c1"].academic.refs # <<>>
  /\ LET ac      == loc["c1"].academic
         refId   == Head(ac.refs)
         fetched == { AcademicPaper("semantic_scholar", w,
                                    ac.s2Doi \/ includes(refId, <<"/">>)) :
                        w \in WorksOfRef(refId) }
     IN \/ /\ IsKnownReference(ac.papers, refId) \/ fetched = {}
           /\ loc' = [loc EXCEPT !["c1"].academic.refs = Tail(@)]
        \/ /\ ~IsKnownReference(ac.papers, refId)
           /\ loc' = [loc EXCEPT !["c1"].academic.refs = Tail(@)]
        \/ /\ ~IsKnownReference(ac.papers, refId)
           /\ \E paper \in fetched, follow \in BOOLEAN :
                LET key == getPaperKey(paper)
                    rec == [id |-> paper.id, doi |-> paper.doi, depth |-> ac.currentDepth]
                IN loc' = [loc EXCEPT !["c1"].academic =
                             [ac EXCEPT !.refs = Tail(@),
                                        !.analyzed = Append(@, key),
                                        !.papers = (key :> rec) @@ @,
                                        !.newPapers = IF follow THEN Append(@, paper) ELSE @]]
  /\ UNCHANGED pc
  /\ AsideUnchanged

\* followReferences, lines 1078-1080 and 1000: the level is over; the next
\* one starts from the relevant papers found, while below maxDepth
AcademicNextLevel ==
  /\ pc["c1"] = "academicRefs"
  /\ loc["c1"].academic.refs = <<>>
  /\ LET ac == loc["c1"].academic
     IN IF ac.newPapers # <<>> /\ ac.currentDepth < ac.maxDepth
        THEN /\ loc' = [loc EXCEPT !["c1"].academic =
                          [ac EXCEPT !.currentDepth = @ + 1,
                                     !.refs = Flatten([i \in DOMAIN ac.newPapers |->
                                                 slice(ac.newPapers[i].references, 5)]),
                                     !.newPapers = <<>>]]
             /\ UNCHANGED pc
        ELSE /\ pc' = [pc EXCEPT !["c1"] = "academicDone"]
             /\ UNCHANGED loc
  /\ AsideUnchanged

SpecAcademic ==
  InitAcademic
    /\ [][AcademicSearch \/ AcademicProcess \/ AcademicReference \/ AcademicNextLevel]_vars


(***************************************************************************)
(* analyzePaperWithRetry (crawler/paper-crawler.ts, lines 1273-1284) over  *)
(* AcademicCrawler.analyzePaper (lines 808-855).  Each crawl runs one      *)
(* invocation; its state is in loc[c].retry: the parameter maxRetries, the *)
(* crawler's genAI, the loop variable i, the results of the calls made and *)
(* the value returned.                                                     *)
(***************************************************************************)
MaxRetries == 3

\* what the model answers to generateContent: text holding a JSON object,
\* text without braces, braces that do not parse, or a rejected promise
GeminiAnswers == {"json", "noJson", "badJson", "throws"}

\* analyzePaper, lines 808-855: null without genAI (809-812); the parsed
\* object when the text matches and parses (844-849); null in every other
\* case (850-854).  The parsed value of a text that starts with a brace is
\* an object, hence truthy at line 1280.
analyzePaper(genAI, answer) ==
  IF ~genAI THEN "null"
  ELSE IF answer = "json" THEN "analysis" ELSE "null"

RetryContinuesOnceMore(i, maxRetries) == i <= maxRetries

\* line 1278: the loop condition
RetryContinues(i, maxRetries) == i < maxRetries

InitRetry ==
  /\ AsideInit
  /\ pc = [c \in Crawls |-> "withRetryTest"]
  /\ \E m \in [Crawls -> 0..MaxRetries], g \in BOOLEAN :
       loc = [c \in Crawls |->
                [InitLoc EXCEPT !.retry = [maxRetries |-> m[c], genAI |-> g, i |-> 0,
                                           calls |-> <<>>, result |-> "pending"]]]

\* line 1278 and line 1283: the condition is tested; when it fails the
\* function returns null
WithRetryTest(c) ==
  /\ pc[c] = "withRetryTest"
  /\ LET r == loc[c].retry
     IN IF RetryContinues(r.i, r.maxRetries)
        THEN /\ pc' = [pc EXCEPT ![c] = "withRetryAnalyze"]
             /\ UNCHANGED loc
        ELSE /\ loc' = [loc EXCEPT ![c].retry.result = "null"]
             /\ pc' = [pc EXCEPT ![c] = "withRetryDone"]
  /\ AsideUnchanged

\* lines 1279-1280: analyzeExternalPaper (1263-1265) is analyzePaper; a
\* truthy result is returned
WithRetryAnalyze(c) ==
  /\ pc[c] = "withRetryAnalyze"
  /\ \E answer \in GeminiAnswers :
       LET r      == loc[c].retry
           result == analyzePaper(r.genAI, answer)
       IN IF result # "null"
          THEN /\ loc' = [loc EXCEPT ![c].retry.calls = Append(@, result),
                                     ![c].retry.result = result]
               /\ pc' = [pc EXCEPT ![c] = "withRetryDone"]
          ELSE /\ loc' = [loc EXCEPT ![c].retry.calls = Append(@, result)]
               /\ pc' = [pc EXCEPT ![c] = "withRetrySleep"]
  /\ AsideUnchanged

\* line 1281 and the i++ of line 1278: the timer of sleep(1000) fires
WithRetrySleep(c) ==
  /\ pc[c] = "withRetrySleep"
  /\ loc' = [loc EXCEPT ![c].retry.i = @ + 1]
  /\ pc' = [pc EXCEPT ![c] = "withRetryTest"]
  /\ AsideUnchanged

NextRetry == \E c \in Crawls : WithRetryTest(c) \/ WithRetryAnalyze(c) \/ WithRetrySleep(c)

\* every invocation that can take a step takes it: the event loop runs the
\* continuation of a settled await and a due timer
SpecRetry ==
  InitRetry /\ [][NextRetry]_vars
    /\ \A c \in Crawls :
         WF_vars(WithRetryTest(c) \/ WithRetryAnalyze(c) \/ WithRetrySleep(c))


(***************************************************************************)
(* Two crawls started by POST /api/queries (crawl() is not awaited, line   *)
(* 81 of the server), both in the loop of lines 59-61, each with one       *)
(* fetched Paper to reconcile: any provider's record of any work.  Their   *)
(* steps interleave at every await of savePaperWithRelation.               *)
(***************************************************************************)
InitRace ==
  \E a1 \in Adapters, a2 \in Adapters, w1 \in Works, w2 \in Works :
    LET o    == [includeReferences |-> FALSE, maxReferenceDepth |-> MaxDepth]
        rec  == [c \in Crawls |-> IF c = "c1" THEN <<a1, w1>> ELSE <<a2, w2>>]
        id   == [c \in Crawls |-> PaperIdOf(c, rec[c][1], 1)]
    IN /\ paperObj = [i \in { id[c] : c \in Crawls } |->
                        mapToPaper(i, i[2], rec[i[1]][2],
                                   ProviderSearchRefs(i[2], rec[i[1]][2]))]
       /\ loc = [c \in Crawls |->
                   [InitLoc EXCEPT !.allPapers = <<id[c]>>, !.uniquePapers = <<id[c]>>,
                                   !.batch = <<id[c]>>, !.idx = 1]]
       /\ pc = [c \in Crawls |-> "findByDOI"]
       /\ hist = [c \in Crawls |-> [InitHist EXCEPT !.done = {"search"}, !.phase = "persist"]]
       /\ entry = [c \in Crawls |-> "http"]
       /\ query = [c \in Crawls |-> NewQuery(c, o)]
       /\ dbQueries = [q \in { QueryId(c) : c \in Crawls } |-> StoredQuery("running", o)]
       /\ dbSessions = Crawls
       /\ activeCrawlers = { QueryId(c) : c \in Crawls }
       /\ crawlState = NoCrawlState
       /\ dbPapers = << >>
       /\ paperQueries = << >>
       /\ dbAnalyses = << >>
       /\ writeFailures = 0
       /\ indexed = FullWorld
       /\ session = [c \in Crawls |-> NewSession]
       /\ outcome = [c \in Crawls |-> NoOutcome]
       /\ search = [c \in Crawls |-> PendingSearch]

SpecRace ==
  InitRace /\ [][\E c \in Crawls : FindByDOI(c) \/ FindByTitle(c) \/ SavePaper(c)
                                       \/ LinkPaper(c)]_vars


(***************************************************************************)
(* Crawls executed one at a time: the first reconciles up to MaxInput - 1  *)
(* fetched Papers, and when it has left the loop of lines 59-61 (or was    *)
(* thrown out of it by a failed write) the second reconciles one more.     *)
(* The Papers are any providers' records of any works, in any order; the   *)
(* store starts empty.                                                     *)
(***************************************************************************)
Reconciling(c) == pc[c] \in {"findByDOI", "findByTitle", "savePaper", "linkPaper"}

InitSequence ==
  \E n \in 1..(MaxInput - 1), as \in [1..MaxInput -> Adapters], ws \in [1..MaxInput -> Works] :
    LET o     == [includeReferences |-> FALSE, maxReferenceDepth |-> MaxDepth]
        batch == [c \in Crawls |->
                   IF c = "c1" THEN [k \in 1..n |-> PaperIdOf(c, as[k], k)]
                   ELSE <<PaperIdOf(c, as[MaxInput], MaxInput)>>]
    IN /\ paperObj = [i \in Range(batch["c1"]) \cup Range(batch["c2"]) |->
                        mapToPaper(i, i[2], ws[i[3]], ProviderSearchRefs(i[2], ws[i[3]]))]
       /\ loc = [c \in Crawls |->
                   [InitLoc EXCEPT !.allPapers = batch[c], !.uniquePapers = batch[c],
                                   !.batch = batch[c], !.idx = 1]]
       /\ pc = [c \in Crawls |-> "findByDOI"]
       /\ hist = [c \in Crawls |-> [InitHist EXCEPT !.done = {"search"}, !.phase = "persist"]]
       /\ entry = [c \in Crawls |-> "http"]
       /\ query = [c \in Crawls |-> NewQuery(c, o)]
       /\ dbQueries = [q \in { QueryId(c) : c \in Crawls } |-> StoredQuery("running", o)]
       /\ dbSessions = Crawls
       /\ activeCrawlers = { QueryId(c) : c \in Crawls }
       /\ crawlState = NoCrawlState
       /\ dbPapers = << >>
       /\ paperQueries = << >>
       /\ dbAnalyses = << >>
       /\ writeFailures = 0
       /\ indexed = FullWorld
       /\ session = [c \in Crawls |-> NewSession]
       /\ outcome = [c \in Crawls |-> NoOutcome]
       /\ search = [c \in Crawls |-> PendingSearch]

SpecSequence ==
  InitSequence
    /\ [][\E c \in Crawls :
            /\ c = "c2" => ~Reconciling("c1")
            /\ FindByDOI(c) \/ FindByTitle(c) \/ SavePaper(c) \/ LinkPaper(c)]_vars


(***************************************************************************)
(* The fan-out search on its own, against a world in which every provider  *)
(* has every work.  It starts where crawl() stands after line 47 in a      *)
(* scheduled re-run of the prior query.                                    *)
(***************************************************************************)
InitSearch ==
  /\ StoreInit
  /\ indexed = FullWorld
  /\ pc = [c \in Crawls |-> IF c = "c1" THEN "search" ELSE "off"]
  /\ entry = [c \in Crawls |-> IF c = "c1" THEN "scheduled" ELSE "none"]
  /\ query = [c \in Crawls |->
                IF c = "c1"
                THEN NewQuery(c, [includeReferences |-> TRUE, maxReferenceDepth |-> MaxDepth])
                ELSE NoQuery]
  /\ session = [c \in Crawls |-> NewSession]
  /\ outcome = [c \in Crawls |-> NoOutcome]
  /\ search = [c \in Crawls |-> PendingSearch]
  /\ loc = [c \in Crawls |-> InitLoc]
  /\ hist = [c \in Crawls |-> IF c = "c1" THEN [InitHist EXCEPT !.phase = "search"] ELSE InitHist]

NextSearch ==
  \E c \in Crawls :
    \/ \E a \in Adapters : AdapterSettle(c, a)
    \/ Collect(c)
    \/ Dedupe(c)

SpecSearch == InitSearch /\ [][NextSearch]_vars

(***************************************************************************)
(* The store's linkPaperToQuery under arbitrary callers.  A caller (a      *)
(* crawl's savePaperWithRelation, of this or of an overlapping crawl of    *)
(* the same query) calls it with any arguments; the call suspends at       *)
(* `await getDatabase()` (line 168), so any number of calls can be pending *)
(* before the body of one of them runs.                                    *)
(***************************************************************************)
ClientPapers == { PaperIdOf("c1", "scopus", 1), PaperIdOf("c1", "crossref", 1) }

ClientQueries == { QueryId("c1"), QueryId("c2") }

ClientDepths == {0, 1}

InitLink ==
  /\ StoreInit
  /\ indexed = FullWorld
  /\ pc = [c \in Crawls |-> "client"]
  /\ entry = [c \in Crawls |-> "none"]
  /\ query = [c \in Crawls |-> NoQuery]
  /\ session = [c \in Crawls |-> NewSession]
  /\ outcome = [c \in Crawls |-> NoOutcome]
  /\ search = [c \in Crawls |-> PendingSearch]
  /\ loc = [c \in Crawls |-> InitLoc]
  /\ hist = [c \in Crawls |-> InitHist]

\* linkPaperToQuery(paperId, queryId, depth) is called: line 168
ClientCall(c) ==
  /\ pc[c] = "client"
  /\ \E p \in ClientPapers, q \in ClientQueries, d \in ClientDepths :
       /\ loc' = [loc EXCEPT ![c].target = p, ![c].depth = d]
       /\ query' = [query EXCEPT ![c].id = q]
  /\ pc' = [pc EXCEPT ![c] = "clientLink"]
  /\ hist' = [hist EXCEPT ![c].done = {}]
  /\ NoWrite
  /\ UNCHANGED <<entry, session, outcome, search, storeVars, activeCrawlers, crawlState, indexed>>

\* lines 169-176: the synchronous body, then the write if a link was pushed
ClientLink(c) ==
  /\ pc[c] = "clientLink"
  /\ paperQueries' = linkPaperToQuery(paperQueries, loc[c].target, query[c].id, loc[c].depth)
  /\ IF LinkExists(paperQueries, loc[c].target, query[c].id)
     THEN /\ NoWrite
          /\ hist' = [hist EXCEPT ![c].done =
                        IF LinkDepth(paperQueries, loc[c].target, query[c].id) = loc[c].depth
                        THEN {"foundExisting"}
                        ELSE {"foundExisting", "otherDepth"}]
     ELSE /\ \E ok \in BOOLEAN : WriteOutcome(ok)
          /\ UNCHANGED hist
  /\ pc' = [pc EXCEPT ![c] = "client"]
  /\ loc' = [loc EXCEPT ![c].target = NoId, ![c].depth = 0]
  /\ query' = [query EXCEPT ![c].id = NoId]
  /\ UNCHANGED <<entry, session, outcome, search, paperObj, dbPapers,
                 dbSessions, dbQueries, dbAnalyses, activeCrawlers, crawlState, indexed>>

NextLink == \E c \in Crawls : ClientCall(c) \/ ClientLink(c)

SpecLink == InitLink /\ [][NextLink]_vars


(***************************************************************************)
(* Properties.                                                             *)
(***************************************************************************)
Finished(c) == pc[c] = "done"

TerminalStatus == {"completed", "failed"}

\* C1: every execution of crawl ends with the session `completed` or
\* `failed`, never left `running`, whatever store writes fail.
C1_EndsCompletedOrFailed ==
  \A c \in Crawls : Finished(c) => session[c].status \in TerminalStatus

\* C2: if all four adapters reject their search and no store write fails,
\* crawl returns a session with status `completed` and papersFound = 0.
C2_AllAdaptersFailStillCompleted ==
  \A c \in Crawls :
    (Finished(c) /\ hist[c].allRejected /\ writeFailures = 0)
      => /\ outcome[c].kind = "returned"
         /\ session[c].status = "completed"
         /\ session[c].papersFound = 0

C2_Witness ==
  \E c \in Crawls :
    /\ Finished(c) /\ hist[c].allRejected /\ writeFailures = 0
    /\ session[c].status = "completed"

PapersFrom(c, a) == SelectSeq(loc[c].allPapers, LAMBDA id : paperObj[id].source = a)

\* C3: the fan-out search returns only after all four adapters settled, it
\* never throws, and what it returns holds, for each adapter, exactly that
\* adapter's papers (in its order) when it fulfilled and none when it
\* rejected, and nothing else.
C3_FanOutConcatenatesSuccesses ==
  \A c \in Crawls :
    /\ "search" \notin hist[c].threw
    /\ pc[c] = "dedupe" =>
         /\ \A a \in Adapters : search[c][a].status \in {"fulfilled", "rejected"}
         /\ \A a \in Adapters :
              PapersFrom(c, a) = IF search[c][a].status = "fulfilled"
                                 THEN search[c][a].papers ELSE <<>>
         /\ \A i \in DOMAIN loc[c].allPapers :
              \E a \in Adapters : loc[c].allPapers[i] \in Range(search[c][a].papers)
         /\ \A i, j \in DOMAIN loc[c].allPapers :
              i # j => loc[c].allPapers[i] # loc[c].allPapers[j]

C3_Witness ==
  \E c \in Crawls :
    /\ pc[c] = "dedupe"
    /\ \E a \in Adapters : search[c][a].status = "rejected"
    /\ \E a, b \in Adapters :
         /\ a # b
         /\ search[c][a].status = "fulfilled" /\ search[c][a].papers # <<>>
         /\ search[c][b].status = "fulfilled" /\ search[c][b].papers # <<>>
    /\ Len(loc[c].allPapers) >= 2

AdapterIndex(a) == CHOOSE i \in DOMAIN AdapterOrder : AdapterOrder[i] = a

\* position of a search result in the invocation order: adapter, then index
InvocationRank(id) == AdapterIndex(id[2]) * 100 + id[3]

RECURSIVE SortByRank(_)
SortByRank(S) ==
  IF S = {} THEN <<>>
  ELSE LET m == CHOOSE x \in S : \A y \in S : InvocationRank(x) <= InvocationRank(y)
       IN <<m>> \o SortByRank(S \ {m})

\* the Paper as the adapter delivered it, before any merge touched it
Pristine(id) ==
  mapToPaper(id, paperObj[id].source, paperObj[id].work,
             ProviderSearchRefs(paperObj[id].source, paperObj[id].work))

Deduplicated(c) ==
  /\ hist[c].phase = "persist"
  /\ loc[c].idx = 1
  /\ pc[c] \in {"findByDOI", "saveSession64"}

\* C4: whatever the order in which the adapters' promises settled, the
\* merged paper list is the one obtained by merging the delivered papers
\* in the invocation order Scopus, Semantic Scholar, OpenAlex, CrossRef:
\* same papers, same order, same field values.
C4_MergeFollowsInvocationOrder ==
  \A c \in Crawls :
    Deduplicated(c) =>
      LET P   == Range(loc[c].allPapers)
          exp == deduplicatePapers(SortByRank(P), [id \in P |-> Pristine(id)])
      IN /\ loc[c].uniquePapers = exp.list
         /\ \A u \in P : paperObj[u] = exp.heap[u]

\* OpenAlex settled before Semantic Scholar, both delivered the same work
\* with different abstracts, and the merged paper carries Semantic Scholar's
C4_Witness ==
  \E c \in Crawls :
    /\ Deduplicated(c)
    /\ \E i, j \in DOMAIN hist[c].settleOrder :
         /\ i < j
         /\ hist[c].settleOrder[i] = "openalex"
         /\ hist[c].settleOrder[j] = "semantic_scholar"
    /\ \E u \in Range(loc[c].uniquePapers), p \in Range(loc[c].allPapers) :
         /\ paperObj[u].source = "semantic_scholar"
         /\ paperObj[p].source = "openalex"
         /\ paperObj[p].work = paperObj[u].work
         /\ paperObj[p].abstract # paperObj[u].abstract
         /\ paperObj[u].abstract = ProviderAbstract("semantic_scholar", paperObj[u].work)
         /\ p \notin Range(loc[c].uniquePapers)

\* C5: once a session's status is `completed` or `failed` it never changes.
C5_TerminalStatusIsFinal ==
  [][\A c \in Crawls :
       session[c].status \in TerminalStatus => session'[c].status = session[c].status]_vars

\* C6: if a phase of crawl threw, then when crawl has finished the session is
\* `failed`, the error's message is in session.errors, the session is in the
\* store, and crawl raised that same error.
C6_FailureRecordedAndReraised ==
  \A c \in Crawls :
    (Finished(c) /\ hist[c].threw # {})
      => /\ session[c].status = "failed"
         /\ loc[c].error \in Range(session[c].errors)
         /\ c \in dbSessions
         /\ outcome[c] = [kind |-> "raised", error |-> loc[c].error]

\* C7: when crawl has finished, the stored SearchQuery with id query.id has
\* the session's final status, for every entry point.
C7_QueryMirrorsSession ==
  \A c \in Crawls :
    Finished(c)
      => /\ query[c].id \in DOMAIN dbQueries
         /\ session[c].status \in TerminalStatus
              => dbQueries[query[c].id].status = session[c].status

ReferencesEnabled(c) == query[c].includeReferences /\ query[c].maxReferenceDepth > 0

\* C8: whenever the session's status is `completed`, the search, persist and
\* analysis phases, and the reference expansion when enabled, have finished
\* and none of them has thrown.
C8_CompletedOnlyAfterAllPhases ==
  \A c \in Crawls :
    session[c].status = "completed"
      => /\ {"search", "persist", "analysis"} \subseteq hist[c].done
         /\ ReferencesEnabled(c) => "refs" \in hist[c].done
         /\ hist[c].threw \cap {"search", "persist", "refs", "analysis"} = {}

C8_Witness ==
  \E c \in Crawls :
    /\ session[c].status = "completed"
    /\ ReferencesEnabled(c)
    /\ "refs" \in hist[c].done
    /\ session[c].papersFound > 0

PersistWriteSites == {"savePaper", "linkPaperToQuery"}

\* C9: after a store write failed while saving a paper or a link, the run does
\* not continue (no further phase runs), and when crawl has finished the
\* session object, which is the one db.data.sessions holds, is `failed` and
\* crawl has raised.
C9_PersistFailureIsFatal ==
  \A c \in Crawls :
    loc[c].error \in PersistWriteSites
      => /\ pc[c] \in {"catch", "updateQuery90", "done"}
         /\ "analysis" \notin hist[c].done
         /\ Finished(c) => /\ session[c].status = "failed"
                           /\ c \in dbSessions
                           /\ outcome[c].kind = "raised"

C9_Witness ==
  \E c \in Crawls :
    /\ Finished(c)
    /\ loc[c].error = "savePaper"
    /\ session[c].status = "failed"
    /\ outcome[c].kind = "raised"

\* C10: db.data.paperQueries never holds two records with the same
\* (paperId, queryId), whatever calls of linkPaperToQuery were made and
\* however they interleaved.
C10_AtMostOneLinkPerPair ==
  \A i, j \in DOMAIN paperQueries :
    (/\ paperQueries[i].paperId = paperQueries[j].paperId
     /\ paperQueries[i].queryId = paperQueries[j].queryId) => i = j

\* a call for a pair that was already linked has run, and another pair of the
\* same paper and one of the same query are linked as well
C10_Witness ==
  /\ \E c \in Crawls : "foundExisting" \in hist[c].done
  /\ \E i, j, k \in DOMAIN paperQueries :
       /\ paperQueries[i].paperId = paperQueries[j].paperId
       /\ paperQueries[i].queryId # paperQueries[j].queryId
       /\ paperQueries[i].queryId = paperQueries[k].queryId
       /\ paperQueries[i].paperId # paperQueries[k].paperId

\* C11: a link record, once stored, is never changed or removed: a later
\* linkPaperToQuery for the same pair with another depth leaves the depth of
\* the first call in place.
C11_FirstDepthKept ==
  [][\A i \in DOMAIN paperQueries :
       /\ i \in DOMAIN paperQueries'
       /\ paperQueries'[i] = paperQueries[i]]_vars

\* a call for an already linked pair, with a depth other than the stored one,
\* has run
C11_Witness ==
  \E c \in Crawls : "otherDepth" \in hist[c].done

\* the links of crawl c's query
LinksOf(c) == SelectSeq(paperQueries, LAMBDA l : l.queryId = query[c].id)

\* C12: every link of a query has a depth between 0 and maxReferenceDepth,
\* depth 0 when includeReferences is false or maxReferenceDepth is 0, and
\* reference expansion never fetches at a level beyond maxReferenceDepth.
C12_DepthWithinBound ==
  \A c \in Crawls :
    /\ \A i \in DOMAIN LinksOf(c) :
         /\ LinksOf(c)[i].depth >= 0
         /\ LinksOf(c)[i].depth <= query[c].maxReferenceDepth
         /\ ~ ReferencesEnabled(c) => LinksOf(c)[i].depth = 0
    /\ pc[c] = "fetchRef"
         => ReferencesEnabled(c) /\ loc[c].depth <= query[c].maxReferenceDepth

\* a finished crawl that linked a paper at its deepest allowed level, which
\* is a level below the first
C12_Witness ==
  \E c \in Crawls :
    /\ Finished(c)
    /\ query[c].maxReferenceDepth >= 2
    /\ \E i \in DOMAIN LinksOf(c) : LinksOf(c)[i].depth = query[c].maxReferenceDepth

\* a level of reference expansion has fetched, deduplicated and filtered its
\* papers and is about to persist the first of them
LevelFiltered(c) ==
  /\ hist[c].phase = "refs"
  /\ pc[c] = "findByDOI"
  /\ loc[c].idx = 1

\* C13: no paper that passed the filter of a reference level has the identity
\* key of a paper already persisted for the query.
C13_KnownPapersAreFilteredOut ==
  \A c \in Crawls :
    LevelFiltered(c) =>
      \A i \in DOMAIN loc[c].batch :
        \A known \in Range(getPapersForQuery(dbPapers, paperQueries, query[c].id)) :
          IdentityKey(paperObj[loc[c].batch[i]]) # IdentityKey(paperObj[known])

\* the works of the papers linked to crawl c's query at the given depth, in
\* link order
LinkedAt(c, depth) ==
  LET ls == SelectSeq(LinksOf(c), LAMBDA l : l.depth = depth)
  IN [i \in DOMAIN ls |-> paperObj[ls[i].paperId].work]

\* C14: in a finished run with maxReferenceDepth = 2 whose seeds are records
\* of X, where X cites Y, Y cites X and Y was fetched at level 1, exactly one
\* paper (Y) is linked at depth 1 and none at depth 2.
C14_CycleIsBroken ==
  \A c \in Crawls :
    ( /\ Finished(c)
      /\ outcome[c].kind = "returned"
      /\ query[c].includeReferences
      /\ query[c].maxReferenceDepth = 2
      /\ Range(LinkedAt(c, 0)) = {"X"}
      /\ LinkedAt(c, 1) # <<>> )
      => /\ LinkedAt(c, 1) = <<"Y">>
         /\ LinkedAt(c, 2) = <<>>

\* C15: level d of reference expansion is explored only when d is at most
\* maxReferenceDepth and, for d > 1, every level before it found a new paper;
\* and when expansion has stopped it explored at least one and at most
\* maxReferenceDepth levels, stopping below maxReferenceDepth only after a
\* level that found nothing.
C15_LevelCounter ==
  \A c \in Crawls :
    LET found == hist[c].levels
        n     == Len(found)
    IN /\ pc[c] = "fetchRef"
            => /\ loc[c].depth = n + 1
               /\ loc[c].depth >= 1
               /\ loc[c].depth <= query[c].maxReferenceDepth
               /\ \A k \in 1..n : found[k] > 0
       /\ "refs" \in hist[c].done
            => /\ n >= 1
               /\ n <= query[c].maxReferenceDepth
               /\ \A k \in 1..(n - 1) : found[k] > 0
               /\ n < query[c].maxReferenceDepth => found[n] = 0

\* expansion went to a second level because the first found a paper, and
\* stopped there, at the depth cap, although the second found one too
C15_Witness ==
  \E c \in Crawls :
    /\ "refs" \in hist[c].done
    /\ Len(hist[c].levels) = query[c].maxReferenceDepth
    /\ Len(hist[c].levels) >= 2
    /\ \A k \in DOMAIN hist[c].levels : hist[c].levels[k] > 0

(***************************************************************************)
(* C16: at every level at most the first RefsPerPaper (10) reference       *)
(* identifiers of each seed are considered, and at most RefsPerLevel (50)  *)
(* distinct candidates are fetched, taken in seed-iteration order: the     *)
(* candidates of a level are distinct identifiers among the first ten of   *)
(* some seed, at most fifty, ordered by the place (seed, then position in  *)
(* its list) where each first occurs, and an identifier among the first    *)
(* ten of a seed is left out only when fifty that occur before it are in.  *)
(***************************************************************************)
ConsideredAt(c) ==
  { pos \in (DOMAIN loc[c].batch) \X (1..RefsPerPaper) :
      pos[2] <= Len(paperObj[loc[c].batch[pos[1]]].references) }

RefAt(c, pos) == paperObj[loc[c].batch[pos[1]]].references[pos[2]]

Before(p1, p2) == p1[1] < p2[1] \/ (p1[1] = p2[1] /\ p1[2] < p2[2])

FirstPlace(c, ref) ==
  CHOOSE pos \in ConsideredAt(c) :
    /\ RefAt(c, pos) = ref
    /\ \A other \in ConsideredAt(c) : RefAt(c, other) = ref => ~ Before(other, pos)

CandidatesAsClaimed(c, cand) ==
  LET considered == { RefAt(c, pos) : pos \in ConsideredAt(c) }
  IN /\ Len(cand) <= RefsPerLevel
     /\ \A j1, j2 \in DOMAIN cand : cand[j1] = cand[j2] => j1 = j2
     /\ Range(cand) \subseteq considered
     /\ \A j1, j2 \in DOMAIN cand :
          j1 < j2 => Before(FirstPlace(c, cand[j1]), FirstPlace(c, cand[j2]))
     /\ \A ref \in considered \ Range(cand) :
          /\ Len(cand) = RefsPerLevel
          /\ \A j \in DOMAIN cand : Before(FirstPlace(c, cand[j]), FirstPlace(c, ref))

C16_CandidatesOfALevel ==
  [][\A c \in Crawls :
       pc[c] = "followReferences" /\ pc'[c] = "fetchRef"
         => CandidatesAsClaimed(c, loc'[c].refsToFetch)]_vars

\* the candidates have just been chosen: a seed lists more than ten
\* identifiers, the seeds' first tens hold more than fifty distinct ones, and
\* fifty are to be fetched
C16_Witness ==
  \E c \in Crawls :
    /\ pc[c] = "fetchRef"
    /\ Len(loc[c].refsToFetch) = RefsPerLevel
    /\ \E i \in DOMAIN loc[c].batch :
         Len(paperObj[loc[c].batch[i]].references) > RefsPerPaper
    /\ Cardinality({ RefAt(c, pos) : pos \in ConsideredAt(c) }) > RefsPerLevel


(***************************************************************************)
(* C17: each candidate identifier is resolved by exactly one rule chosen   *)
(* by its class: a DOI-like identifier (it contains "/" or "10.") is       *)
(* attempted by DOI lookup; otherwise an identifier of 40 characters is    *)
(* attempted by provider-ID lookup; otherwise no lookup is made.           *)
(***************************************************************************)
C17_OneRulePerCandidate ==
  [][\A c \in Crawls :
       /\ pc[c] = "fetchRef"
       /\ loc[c].refsToFetch # <<>>
       /\ loc'[c].refsToFetch = Tail(loc[c].refsToFetch)
       => LET ref == Head(loc[c].refsToFetch)
          IN loc'[c].lookups = IF IsDoiLike(ref) THEN <<"doi">>
                               ELSE IF Len(ref) = S2IdLength THEN <<"id">>
                               ELSE <<>>]_vars

(***************************************************************************)
(* C18: a candidate whose lookup fails or returns nothing is dropped from  *)
(* its level only: the loop goes on to the remaining candidates of the     *)
(* level, nothing is added to session.errors for it and the session does   *)
(* not fail because of it (an exception from the fetch loop never reaches  *)
(* the catch block; with no rejected write the session has no error and is *)
(* not `failed`).                                                          *)
(***************************************************************************)
C18_DroppedCandidateIsNoError ==
  \A c \in Crawls :
    hist[c].dropped
      => /\ loc[c].refsToFetch # <<>> => pc[c] = "fetchRef"
         /\ loc[c].error # "fetchRef"
         /\ "fetchRef" \notin Range(session[c].errors)
         /\ writeFailures = 0
              => /\ pc[c] # "catch"
                 /\ session[c].errors = <<>>
                 /\ session[c].status # "failed"

\* a DOI lookup found nothing, and a later candidate of the same level was
\* looked up by paperId and pushed
C18_Witness ==
  \E c \in Crawls :
    /\ hist[c].dropped
    /\ pc[c] = "fetchRef"
    /\ loc[c].lookups = <<"id">>
    /\ loc[c].fetchedPapers # <<>>

(***************************************************************************)
(* C19 as written: mergePaperData(p, p) leaves every field of p, the       *)
(* keywords and references lists included, unchanged.                      *)
(***************************************************************************)
C19_SelfMergeChangesNothing ==
  \A c \in Crawls :
    pc[c] = "mergedSelf" => paperObj[loc[c].batch[1]] = paperObj[BeforeId]

NoDuplicates(list) == \A i, j \in DOMAIN list : list[i] = list[j] => i = j

FirstIndex(list, x) == CHOOSE i \in DOMAIN list : list[i] = x /\ \A j \in 1..(i - 1) : list[j] # x

\* `after` holds the elements of `before`, each once, in the order in which
\* they first occur in `before`
FirstOccurrencesOf(after, before) ==
  /\ Range(after) = Range(before)
  /\ NoDuplicates(after)
  /\ \A i, j \in DOMAIN after :
       i < j => FirstIndex(before, after[i]) < FirstIndex(before, after[j])

(***************************************************************************)
(* C19, amended: mergePaperData(p, p) leaves every field of p other than   *)
(* keywords and references unchanged; keywords and references keep their   *)
(* elements, each once, in order of first occurrence: a list without       *)
(* duplicates is unchanged, a list with duplicates loses the repetitions.  *)
(***************************************************************************)
C19_SelfMergeKeepsFieldsAndElements ==
  \A c \in Crawls :
    pc[c] = "mergedSelf"
      => LET after  == paperObj[loc[c].batch[1]]
             before == paperObj[BeforeId]
         IN /\ \A field \in DOMAIN before \ {"keywords", "references"} :
                 after[field] = before[field]
            /\ FirstOccurrencesOf(after.keywords, before.keywords)
            /\ FirstOccurrencesOf(after.references, before.references)
            /\ NoDuplicates(before.keywords) => after.keywords = before.keywords
            /\ NoDuplicates(before.references) => after.references = before.references

\* p was merged with itself, its reference list had a repetition and its
\* keyword list had none
C19_Witness ==
  \E c \in Crawls :
    /\ pc[c] = "mergedSelf"
    /\ ~ NoDuplicates(paperObj[BeforeId].references)
    /\ NoDuplicates(paperObj[BeforeId].keywords)
    /\ paperObj[BeforeId].keywords # <<>>

(***************************************************************************)
(* C20: for two Papers sharing an identity key, after the second is merged *)
(* into the first, the first's keywords and its references each contain    *)
(* every element of both inputs' lists and contain no duplicates.          *)
(***************************************************************************)
C20_MergedListsAreUnions ==
  \A c \in Crawls :
    pc[c] = "merged"
      => LET after    == paperObj[loc[c].batch[1]]
             before   == paperObj[BeforeId]
             newPaper == paperObj[loc[c].batch[2]]
         IN /\ Range(before.keywords) \cup Range(newPaper.keywords)
                 \subseteq Range(after.keywords)
            /\ Range(before.references) \cup Range(newPaper.references)
                 \subseteq Range(after.references)
            /\ NoDuplicates(after.keywords)
            /\ NoDuplicates(after.references)

\* two records with the same key were merged; the second brought a keyword
\* and a reference the first lacked, and the lists overlapped or repeated
C20_Witness ==
  \E c \in Crawls :
    /\ pc[c] = "merged"
    /\ paperObj[loc[c].batch[1]].source # paperObj[loc[c].batch[2]].source
    /\ ~ (Range(paperObj[loc[c].batch[2]].references)
            \subseteq Range(paperObj[BeforeId].references))
    /\ ~ (Range(paperObj[loc[c].batch[2]].keywords)
            \subseteq Range(paperObj[BeforeId].keywords))
    /\ Len(paperObj[loc[c].batch[1]].references)
         < Len(paperObj[BeforeId].references) + Len(paperObj[loc[c].batch[2]].references)

(***************************************************************************)
(* C21: for two Papers sharing an identity key the merged citationCount is *)
(* the larger of the two counts, whichever of the two is the existing      *)
(* record (merging in the other order gives the same count).               *)
(***************************************************************************)
C21_CitationCountIsMax ==
  \A c \in Crawls :
    pc[c] = "merged"
      => LET after    == paperObj[loc[c].batch[1]]
             before   == paperObj[BeforeId]
             newPaper == paperObj[loc[c].batch[2]]
         IN /\ after.citationCount >= before.citationCount
            /\ after.citationCount >= newPaper.citationCount
            /\ after.citationCount \in {before.citationCount, newPaper.citationCount}
            /\ after.citationCount = mergePaperData(newPaper, before).citationCount

\* the existing record had the larger count, and it was kept
C21_Witness ==
  \E c \in Crawls :
    /\ pc[c] = "merged"
    /\ paperObj[BeforeId].citationCount > paperObj[loc[c].batch[2]].citationCount
    /\ paperObj[loc[c].batch[1]].citationCount = paperObj[BeforeId].citationCount

(***************************************************************************)
(* C22: two fetched Papers whose DOIs differ only in letter case are       *)
(* collapsed by deduplication into one Paper, the first of the two, that   *)
(* keeps the first-seen DOI spelling, has the larger of the two citation   *)
(* counts, and takes the abstract from the second when the first has none. *)
(***************************************************************************)
C22_CaseVariantsCollapse ==
  \A c \in Crawls :
    /\ Deduplicated(c)
    /\ Len(loc[c].allPapers) = 2
    /\ Pristine(loc[c].allPapers[1]).doi # NoString
    /\ Pristine(loc[c].allPapers[2]).doi # NoString
    /\ toLowerCase(Pristine(loc[c].allPapers[1]).doi)
         = toLowerCase(Pristine(loc[c].allPapers[2]).doi)
    => LET first  == Pristine(loc[c].allPapers[1])
           second == Pristine(loc[c].allPapers[2])
           merged == paperObj[loc[c].allPapers[1]]
       IN /\ loc[c].uniquePapers = <<loc[c].allPapers[1]>>
          /\ merged.doi = first.doi
          /\ merged.citationCount >= first.citationCount
          /\ merged.citationCount >= second.citationCount
          /\ merged.citationCount \in {first.citationCount, second.citationCount}
          /\ merged.abstract = IF first.abstract = NoString THEN second.abstract
                               ELSE first.abstract

\* the scenario: Scopus' record {doi 10.1/x, 5 citations, no abstract}, then
\* Semantic Scholar's {doi 10.1/X, 12 citations, an abstract}
C22_Witness ==
  \E c \in Crawls :
    /\ Deduplicated(c)
    /\ Len(loc[c].allPapers) = 2
    /\ Len(loc[c].uniquePapers) = 1
    /\ Pristine(loc[c].allPapers[1]).doi = DoiLower("X")
    /\ Pristine(loc[c].allPapers[1]).abstract = NoString
    /\ Pristine(loc[c].allPapers[2]).doi = DoiUpper("X")
    /\ paperObj[loc[c].allPapers[1]].citationCount = 12
    /\ paperObj[loc[c].allPapers[1]].abstract = Pristine(loc[c].allPapers[2]).abstract
    /\ paperObj[loc[c].allPapers[1]].abstract # NoString

(***************************************************************************)
(* C23: two titles that differ only in letter case, in punctuation         *)
(* characters or in the amount of whitespace between words give Papers     *)
(* without a DOI the same identity key, and deduplication collapses them;  *)
(* so do "Deep Learning, 2020!" and "deep learning 2020".  Stated for one  *)
(* difference at a time: one letter in the other case, one punctuation     *)
(* character more, one whitespace character more next to whitespace.       *)
(***************************************************************************)
IsLetterOrDigit(ch) ==
  ch \in Range(LowerChars) \cup Range(UpperChars) \cup Range(DigitChars)

IsPunctuation(ch) == ~ IsLetterOrDigit(ch) /\ ~ IsSpace(ch)

OneMore(long, short) ==
  \E i \in DOMAIN long :
    /\ short = Removed(long, i)
    /\ \/ IsPunctuation(long[i])
       \/ /\ IsSpace(long[i])
          /\ \/ i > 1 /\ IsSpace(long[i - 1])
             \/ i < Len(long) /\ IsSpace(long[i + 1])

DifferOnlyInForm(t1, t2) ==
  \/ OneMore(t1, t2)
  \/ OneMore(t2, t1)
  \/ /\ Len(t1) = Len(t2)
     /\ \E i \in DOMAIN t1 :
          /\ t1[i] # t2[i]
          /\ LowerChar(t1[i]) = LowerChar(t2[i])
          /\ \A j \in DOMAIN t1 \ {i} : t1[j] = t2[j]
  \/ {t1, t2} = {ExampleTitle, ExamplePlain}

C23_TitleFormIsIgnored ==
  \A c \in Crawls :
    /\ Deduplicated(c)
    /\ Len(loc[c].allPapers) = 2
    /\ \A i \in 1..2 : paperObj[loc[c].allPapers[i]].doi = NoString
    /\ DifferOnlyInForm(paperObj[loc[c].allPapers[1]].title,
                        paperObj[loc[c].allPapers[2]].title)
    => /\ IdentityKey(paperObj[loc[c].allPapers[1]])
            = IdentityKey(paperObj[loc[c].allPapers[2]])
       /\ loc[c].uniquePapers = <<loc[c].allPapers[1]>>

\* the example of the claim went through deduplication
C23_Witness ==
  \E c \in Crawls :
    /\ Deduplicated(c)
    /\ paperObj[loc[c].allPapers[1]].title = ExampleTitle
    /\ paperObj[loc[c].allPapers[2]].title = ExamplePlain
    /\ Len(loc[c].uniquePapers) = 1

(***************************************************************************)
(* C24: the identity key of a Paper (lower-cased DOI when present, else    *)
(* normalized title) never changes once the Paper exists, and no merge is  *)
(* performed between two Papers whose identity keys differ, in             *)
(* deduplication and in savePaperWithRelation alike.                       *)
(***************************************************************************)
C24_IdentityKeyIsStable ==
  [][/\ \A id \in DOMAIN paperObj :
          /\ id \in DOMAIN paperObj'
          /\ IdentityKey(paperObj'[id]) = IdentityKey(paperObj[id])
     /\ \A c \in Crawls :
          /\ pc[c] = "findByTitle"
          /\ pc'[c] = "savePaper"
          /\ loc'[c].target # CurrentPaper(c)
          => IdentityKey(paperObj[loc'[c].target]) = IdentityKey(paperObj[CurrentPaper(c)])]_vars

(***************************************************************************)
(* C25: first non-empty wins.  For each of abstract, doi, scopusId,        *)
(* semanticScholarId, openAlexId, pdfUrl and openAccessUrl: a field that   *)
(* is non-empty keeps its value through every merge; a field changes only  *)
(* from empty to the value an incoming Paper carries; and a merge fills an *)
(* empty field whenever the incoming Paper has a value (after              *)
(* deduplication a field holds the first non-empty value among the Papers  *)
(* of its key, in input order).                                            *)
(***************************************************************************)
OptionalFields ==
  {"abstract", "doi", "scopusId", "semanticScholarId", "openAlexId", "pdfUrl",
   "openAccessUrl"}

\* the first non-empty value of `field` among the Papers ids[1], ids[2], ...
FirstNonEmpty(field, ids) ==
  IF \E k \in DOMAIN ids : paperObj[ids[k]][field] # NoString
  THEN paperObj[ids[CHOOSE k \in DOMAIN ids :
                      /\ paperObj[ids[k]][field] # NoString
                      /\ \A j \in 1..(k - 1) : paperObj[ids[j]][field] = NoString]][field]
  ELSE NoString

C25_FirstNonEmptyWins ==
  [][/\ \A id \in DOMAIN paperObj, field \in OptionalFields :
          paperObj'[id][field] # paperObj[id][field]
            => /\ paperObj[id][field] = NoString
               /\ \E other \in DOMAIN paperObj \ {id} :
                    paperObj[other][field] = paperObj'[id][field]
     /\ \A c \in Crawls :
          /\ pc[c] = "findByTitle" /\ pc'[c] = "savePaper"
               /\ loc'[c].target # CurrentPaper(c)
               => \A field \in OptionalFields :
                    paperObj'[loc'[c].target][field]
                      = FirstNonEmpty(field, <<loc'[c].target, CurrentPaper(c)>>)
          /\ pc[c] = "dedupe" /\ pc'[c] # "dedupe"
               => \A id \in Range(loc'[c].uniquePapers), field \in OptionalFields :
                    paperObj'[id][field]
                      = FirstNonEmpty(field,
                          SelectSeq(loc[c].allPapers, LAMBDA other :
                            IdentityKey(paperObj[other]) = IdentityKey(paperObj[id])))]_vars

\* deduplication has merged a second Paper into a first: the first kept a
\* value that differs from the second's, and had an empty field filled
C25_Witness ==
  \E c \in Crawls :
    /\ Deduplicated(c)
    /\ \E id \in Range(loc[c].uniquePapers),
          other \in Range(loc[c].allPapers) \ Range(loc[c].uniquePapers) :
         /\ IdentityKey(Pristine(other)) = IdentityKey(Pristine(id))
         /\ \E field \in OptionalFields :
              /\ Pristine(id)[field] = NoString
              /\ paperObj[id][field] = Pristine(other)[field]
              /\ paperObj[id][field] # NoString
         /\ \E field \in OptionalFields :
              /\ paperObj[id][field] # NoString
              /\ Pristine(other)[field] # NoString
              /\ paperObj[id][field] # Pristine(other)[field]

(***************************************************************************)
(* C26: a request answered with 429 is retried, after the delay, exactly   *)
(* once; if the retry is answered with 429 too the failure is surfaced to  *)
(* the caller: no request is attempted more than twice, and after a second *)
(* 429 the call has ended in rejection.                                    *)
(***************************************************************************)
IsRateLimited(answer) == answer \in {"429", "429 retry-after"}

C26_RetriesExactlyOnce ==
  \A c \in Crawls :
    /\ Len(loc[c].responses) <= 2
    /\ Len(loc[c].responses) = 2 /\ IsRateLimited(loc[c].responses[2])
         => pc[c] = "rejected"
    /\ Len(loc[c].responses) = 1 /\ IsRateLimited(loc[c].responses[1])
         => pc[c] \in {"retryWait", "request"}

(***************************************************************************)
(* C27: the screening gate is fail-open.  Whenever the classifier fails    *)
(* (the call throws, the response holds no JSON, the JSON is malformed or  *)
(* lacks a boolean shouldAnalyze) the paper goes on to full analysis: a    *)
(* paper is left out only when the classifier answered shouldAnalyze =     *)
(* false; and screening never fails the run.                               *)
(***************************************************************************)
C27_ScreeningIsFailOpen ==
  [][\A c \in Crawls :
       pc[c] = "quickScreen" /\ loc'[c].idx = loc[c].idx + 1
         => /\ loc'[c].toAnalyze =
                 IF loc'[c].screen = "false" THEN loc[c].toAnalyze
                 ELSE Append(loc[c].toAnalyze, loc[c].batch[loc[c].idx])
            /\ pc'[c] = "quickScreen"
            /\ session'[c] = session[c]]_vars

(***************************************************************************)
(* C28: persistence reconciliation is not safe under concurrency.  Two     *)
(* stored Papers have the same DOI only when a reconciliation inserted     *)
(* while another one stood between its lookups and its insert (the         *)
(* witness shows that this happens: both read "not found", both insert);   *)
(* reconciliations that do not overlap never store a DOI twice.            *)
(***************************************************************************)
StoredTwice ==
  \E i, j \in DOMAIN dbPapers :
    /\ i < j
    /\ paperObj[dbPapers[i]].doi # NoString
    /\ paperObj[dbPapers[i]].doi = paperObj[dbPapers[j]].doi

C28_DuplicatesOnlyByOverlap ==
  StoredTwice => \E c \in Crawls : hist[c].overtaken

\* both crawls looked the DOI up and found nothing, both inserted: the
\* store holds two Papers with one DOI
C28_Witness ==
  /\ StoredTwice
  /\ Len(dbPapers) = 2
  /\ \A c \in Crawls :
       /\ pc[c] \in {"linkPaper", "saveSession64"}
       /\ \E i \in DOMAIN dbPapers : dbPapers[i] = loc[c].batch[1]
  /\ paperObj[dbPapers[1]].title = paperObj[dbPapers[2]].title

(***************************************************************************)
(* C29: reconciliation of a fetched Paper looks a stored Paper up by DOI,  *)
(* then by exact title if the DOI gave none.  With a match the fetched     *)
(* data is merged into the stored record (its id kept, lastUpdated         *)
(* refreshed), the link carries the stored record's id and the number of   *)
(* stored Papers does not grow; without a match exactly one new Paper, the *)
(* fetched one, is inserted and linked.                                    *)
(***************************************************************************)
StoredWithDoi(doi) ==
  { id \in Range(dbPapers) : doi # NoString /\ paperObj[id].doi = doi }

StoredWithTitle(title) == { id \in Range(dbPapers) : paperObj[id].title = title }

C29_Reconciliation ==
  [][\A c \in Crawls :
       LET p       == CurrentPaper(c)
           fetched == paperObj[p]
       IN /\ pc[c] = "findByDOI" /\ pc'[c] = "findByTitle"
               => IF StoredWithDoi(fetched.doi) = {} THEN loc'[c].existingByDOI = NoId
                  ELSE loc'[c].existingByDOI \in StoredWithDoi(fetched.doi)
          /\ pc[c] = "findByTitle" /\ pc'[c] = "savePaper"
               => LET t == loc'[c].target
                  IN /\ loc[c].existingByDOI # NoId => t = loc[c].existingByDOI
                     /\ loc[c].existingByDOI = NoId /\ StoredWithTitle(fetched.title) # {}
                          => t \in StoredWithTitle(fetched.title)
                     /\ loc[c].existingByDOI = NoId /\ StoredWithTitle(fetched.title) = {}
                          => t = p /\ paperObj' = paperObj
                     /\ t # p
                          => /\ paperObj'[t].id = t
                             /\ paperObj'[t].lastUpdated = "reconciled"
                             /\ paperObj'[p] = fetched
                             /\ \A field \in OptionalFields :
                                  paperObj'[t][field] = FirstNonEmpty(field, <<t, p>>)
                             /\ Range(fetched.keywords) \subseteq Range(paperObj'[t].keywords)
                             /\ Range(fetched.references)
                                  \subseteq Range(paperObj'[t].references)
          /\ pc[c] = "savePaper" /\ pc'[c] # "savePaper"
               => dbPapers' = IF loc[c].target \in Range(dbPapers) THEN dbPapers
                              ELSE Append(dbPapers, p)
          /\ pc[c] = "linkPaper" /\ pc'[c] \notin {"linkPaper", "catch"}
               => /\ LinkExists(paperQueries', loc[c].target, query[c].id)
                  /\ Cardinality({ i \in DOMAIN dbPapers : dbPapers[i] = loc[c].target }) = 1
                  /\ loc[c].target # p => p \notin Range(dbPapers)
                  /\ Len(paperQueries') <= Len(paperQueries) + 1]_vars

\* a reconciliation found the stored record by DOI (the titles differ),
\* merged into it and linked it to its own query; one Paper is stored
C29_Witness ==
  \E c \in Crawls :
    /\ pc[c] = "saveSession64"
    /\ Len(dbPapers) = 1
    /\ loc[c].batch[1] # dbPapers[1]
    /\ paperObj[dbPapers[1]].title # paperObj[loc[c].batch[1]].title
    /\ paperObj[dbPapers[1]].lastUpdated = "reconciled"
    /\ LinkExists(paperQueries, dbPapers[1], query[c].id)

(***************************************************************************)
(* C30: deduplicatePapers returns exactly one Paper per identity key of    *)
(* its input, in the order in which the keys first occur; the Paper        *)
(* returned for a key is the first input Paper under that key, and no two  *)
(* returned Papers share a key, also with the keys taken again from the    *)
(* returned Papers after merging.                                          *)
(***************************************************************************)
InputKey(id) == IdentityKey(Pristine(id))

FirstUnderKey(input) ==
  { k \in DOMAIN input : \A j \in 1..(k - 1) : InputKey(input[j]) # InputKey(input[k]) }

NthOf(positions, n) ==
  CHOOSE k \in positions : Cardinality({ j \in positions : j <= k }) = n

C30_OnePaperPerKey ==
  \A c \in Crawls :
    Deduplicated(c)
    => LET input  == loc[c].allPapers
           output == loc[c].uniquePapers
           firsts == FirstUnderKey(input)
       IN /\ Len(output) = Cardinality({ InputKey(input[k]) : k \in DOMAIN input })
          /\ Len(output) = Cardinality(firsts)
          /\ \A n \in DOMAIN output : output[n] = input[NthOf(firsts, n)]
          /\ \A n \in DOMAIN output : IdentityKey(paperObj[output[n]]) = InputKey(output[n])
          /\ \A m, n \in DOMAIN output :
               m # n => IdentityKey(paperObj[output[m]]) # IdentityKey(paperObj[output[n]])

\* three papers in, the third under the key of the first: two come out, the
\* first and the second, and the first was changed by the merge
C30_Witness ==
  \E c \in Crawls :
    /\ Deduplicated(c)
    /\ Len(loc[c].allPapers) = 3
    /\ InputKey(loc[c].allPapers[1]) = InputKey(loc[c].allPapers[3])
    /\ InputKey(loc[c].allPapers[1]) # InputKey(loc[c].allPapers[2])
    /\ loc[c].uniquePapers = <<loc[c].allPapers[1], loc[c].allPapers[2]>>
    /\ paperObj[loc[c].allPapers[1]] # Pristine(loc[c].allPapers[1])

(***************************************************************************)
(* C31: no merge, in memory or in a persistence reconciliation, deletes or *)
(* reduces a field of a Paper: its citationCount, referenceCount and       *)
(* influentialCitationCount never decrease, its keywords and references    *)
(* never lose an element, and no non-empty optional field becomes empty.   *)
(***************************************************************************)
C31_NothingIsReduced ==
  [][\A id \in DOMAIN paperObj \cap DOMAIN paperObj' :
       LET old == paperObj[id]
           new == paperObj'[id]
       IN /\ new.citationCount >= old.citationCount
          /\ new.referenceCount >= old.referenceCount
          /\ new.influentialCitationCount >= old.influentialCitationCount
          /\ Range(old.keywords) \subseteq Range(new.keywords)
          /\ Range(old.references) \subseteq Range(new.references)
          /\ \A field \in OptionalFields :
               old[field] # NoString => new[field] # NoString]_vars

\* a stored Paper that a reconciliation merged a fetched Paper into: it has
\* a larger count, more keywords and a DOI it did not come with
C31_Witness ==
  \E id \in Range(dbPapers) :
    /\ paperObj[id].lastUpdated = "reconciled"
    /\ paperObj[id].citationCount > Pristine(id).citationCount
    /\ Len(paperObj[id].keywords) > Len(Pristine(id).keywords)
    /\ Pristine(id).doi = NoString
    /\ paperObj[id].doi # NoString

(***************************************************************************)
(* C32: an adapter instance never has more requests in flight than its     *)
(* requestsPerSecond setting, a rate-limit retry counting as part of the   *)
(* request that caused it; a call issued while that many are in flight is  *)
(* held back and starts only when an earlier one has finished.             *)
(***************************************************************************)
InFlight(l) == { k \in Calls : l.call[k] \in {"request", "retryWait", "pacing"} }

C32_CeilingIsEnforced ==
  [][pc["c1"] = "limiter"
       => LET l   == loc["c1"].limiter
              new == loc'["c1"].limiter
          IN /\ Cardinality(InFlight(new)) <= new.requestsPerSecond
             /\ \A k \in Calls :
                  /\ l.call[k] = "idle" /\ new.call[k] # "idle"
                      /\ Cardinality(InFlight(l)) >= l.requestsPerSecond
                        => new.call[k] = "queued"
                  /\ l.call[k] = "queued" /\ new.call[k] # "queued"
                        => /\ new.call[k] = "request"
                           /\ \E j \in InFlight(l) :
                                new.call[j] \in {"fulfilled", "rejected"}]_vars

\* the ceiling is 2, two calls are in flight, one of them waiting to retry
\* after a 429, and the third call is held back
C32_Witness ==
  /\ pc["c1"] = "limiter"
  /\ loc["c1"].limiter.requestsPerSecond = 2
  /\ Cardinality(InFlight(loc["c1"].limiter)) = 2
  /\ \E k \in Calls : loc["c1"].limiter.call[k] = "retryWait"
  /\ \E k \in Calls : loc["c1"].limiter.call[k] = "queued"

(***************************************************************************)
(* C33: when a run has ended `completed`, session.papersFound and the      *)
(* query's paperCount equal the number of distinct Papers linked to the    *)
(* query in the store, also when two fetched Papers with different         *)
(* identity keys were reconciled to one stored Paper.                      *)
(***************************************************************************)
LinkedPapers(c) ==
  { paperQueries[i].paperId :
      i \in { j \in DOMAIN paperQueries : paperQueries[j].queryId = query[c].id } }

C33_PapersFoundCountsLinkedPapers ==
  \A c \in Crawls :
    Finished(c) /\ outcome[c].kind = "returned" /\ session[c].status = "completed"
    => /\ session[c].papersFound = Cardinality(LinkedPapers(c))
       /\ query[c].id \in DOMAIN dbQueries
            => dbQueries[query[c].id].paperCount = Cardinality(LinkedPapers(c))

(***************************************************************************)
(* C34: when a run has ended `completed`, session.papersAnalyzed is the    *)
(* number of Papers linked to the query for which the screening gate       *)
(* answered shouldAnalyze = true, an analysis is stored for each of them,  *)
(* and papersAnalyzed does not exceed the number of linked Papers.         *)
(***************************************************************************)
C34_PapersAnalyzedCountsScreenedIn ==
  \A c \in Crawls :
    Finished(c) /\ outcome[c].kind = "returned" /\ session[c].status = "completed"
    => LET linked == getPapersForQuery(dbPapers, paperQueries, query[c].id)
           passed == { i \in DOMAIN linked : loc[c].screens[i] = "true" }
       IN /\ Len(loc[c].screens) = Len(linked)
          /\ session[c].papersAnalyzed = Cardinality(passed)
          /\ \A i \in passed : linked[i] \in Range(dbAnalyses)
          /\ session[c].papersAnalyzed <= Len(linked)

(***************************************************************************)
(* C35: with crawls executed one at a time from a store in which no two    *)
(* Papers share a DOI or an id, after any sequence of reconciliations the  *)
(* store holds no two Papers with the same exact DOI string and no two     *)
(* with the same id.                                                       *)
(***************************************************************************)
C35_NoDoiAndNoIdTwice ==
  \A i, j \in DOMAIN dbPapers :
    i # j => /\ dbPapers[i] # dbPapers[j]
             /\ paperObj[dbPapers[i]].doi = NoString
                  \/ paperObj[dbPapers[i]].doi # paperObj[dbPapers[j]].doi

\* the second crawl's Paper was merged into a stored one with its DOI and
\* another title; the store holds two Papers whose DOIs differ in case only
C35_Witness ==
  /\ pc["c2"] = "saveSession64"
  /\ Len(dbPapers) = 2
  /\ loc["c2"].batch[1] \notin Range(dbPapers)
  /\ paperObj[dbPapers[1]].doi # paperObj[dbPapers[2]].doi
  /\ toLowerCase(paperObj[dbPapers[1]].doi) = toLowerCase(paperObj[dbPapers[2]].doi)
  /\ \E i \in DOMAIN dbPapers :
       /\ paperObj[dbPapers[i]].doi = paperObj[loc["c2"].batch[1]].doi
       /\ paperObj[dbPapers[i]].title # paperObj[loc["c2"].batch[1]].title
       /\ paperObj[dbPapers[i]].lastUpdated = "reconciled"

(***************************************************************************)
(* C36: every activeCrawlers entry added by POST /api/queries is           *)
(* eventually removed, whether the crawl completes, the crawl fails, or    *)
(* the status update to `running` that precedes the crawl fails.           *)
(***************************************************************************)
C36_EntryIsEventuallyRemoved ==
  \A c \in Crawls : (QueryId(c) \in activeCrawlers) ~> (QueryId(c) \notin activeCrawlers)

(***************************************************************************)
(* C37: crawlState describes one crawl at a time.  From the reset at the   *)
(* start of a POST /api/crawl request until that request ends, progress    *)
(* never decreases and stays within 0..100, and when the request ends      *)
(* isRunning is false, with progress 100 on success and error set on       *)
(* failure; for every interleaving of overlapping requests.                *)
(***************************************************************************)
AfterReset(c) ==
  pc[c] \in {"search", "analyze", "references", "fetchRef", "summary", "finish"}

C37_CrawlStateDescribesOneCrawl ==
  [][\A c \in Crawls :
       AfterReset(c)
       => /\ crawlState'.progress >= crawlState.progress
          /\ crawlState'.progress \in 0..100
          /\ pc'[c] = "ended200" => ~crawlState'.isRunning /\ crawlState'.progress = 100
          /\ pc'[c] = "ended500" => ~crawlState'.isRunning /\ crawlState'.error]_vars

(***************************************************************************)
(* C38: in the file-backed AcademicCrawler a stored record is never        *)
(* processed again or overwritten: a fetched reference whose paper key is  *)
(* already in db.papers is not analyzed again, the stored record keeps the *)
(* depth of its first discovery, and no record is stored with a depth      *)
(* above config.maxDepth.                                                  *)
(***************************************************************************)
C38_StoredRecordsAreFinal ==
  [][pc["c1"] \in {"academicSearch", "academicProcess", "academicRefs"}
       => LET ac  == loc["c1"].academic
              new == loc'["c1"].academic
          IN /\ \A k \in DOMAIN ac.papers :
                  k \in DOMAIN new.papers /\ new.papers[k].depth = ac.papers[k].depth
             /\ new.analyzed # ac.analyzed
                  => new.analyzed[Len(new.analyzed)] \notin DOMAIN ac.papers
             /\ \A k \in DOMAIN new.papers : new.papers[k].depth <= ac.maxDepth]_vars

(***************************************************************************)
(* C39: analyzePaperWithRetry calls the analysis at most maxRetries times, *)
(* returns the first non-null result without a further attempt, returns    *)
(* null only after maxRetries null results in a row, and always returns.   *)
(***************************************************************************)
RetryIsBounded(c) ==
  LET r == loc[c].retry
  IN /\ Len(r.calls) <= r.maxRetries
     /\ \A k \in 1..(Len(r.calls) - 1) : r.calls[k] = "null"
     /\ r.result = "pending" => \A k \in DOMAIN r.calls : r.calls[k] = "null"
     /\ r.result = "analysis" => r.calls # <<>> /\ r.calls[Len(r.calls)] = "analysis"
     /\ r.result = "null" => /\ Len(r.calls) = r.maxRetries
                             /\ \A k \in DOMAIN r.calls : r.calls[k] = "null"
     /\ pc[c] = "withRetryDone" <=> r.result # "pending"

C39_RetryIsBoundedAndReturns ==
  /\ [](\A c \in Crawls : RetryIsBounded(c))
  /\ \A c \in Crawls : <>[](pc[c] = "withRetryDone")

C39_Witness ==
  /\ pc["c1"] = "withRetryDone" /\ pc["c2"] = "withRetryDone"
  /\ loc["c1"].retry.maxRetries = 3
  /\ loc["c1"].retry.calls = <<"null", "analysis">>
  /\ loc["c2"].retry.maxRetries = 2
  /\ loc["c2"].retry.calls = <<"null", "null">>
  /\ loc["c2"].retry.result = "null"


====
